---- MODULE Spec2Model ----
(***************************************************************************)
(* Benchmark execution worker (haitai-social/agent-benchmark, consumer).   *)
(*                                                                         *)
(* Spec     : the per-delivery pipeline.  Two consumer processes share the *)
(*            Redis gate and the database; each takes one delivery through *)
(*            RabbitMqConsumer._on_message, MessageProcessor               *)
(*            .handle_raw_message, ._process_message and ._execute_cases.  *)
(*            A repository call is one database transaction and is one     *)
(*            step here.                                                   *)
(* SpecRepo : the repository's case writes with the reconciler taken       *)
(*            statement by statement, next to an external writer of the    *)
(*            experiment row.                                              *)
(*                                                                         *)
(* Environment assumptions: Redis calls do not fail and the two markers    *)
(* are observed within their TTLs; a runner returns a result for every     *)
(* case it was given (InspectRunner.run_cases never raises).               *)
(***************************************************************************)
EXTENDS Integers, Sequences, FiniteSets, TLC

\* ------------------------------------------------------------------ bounds
MaxCases == 2
MaxClock == 3
max_message_retries == 2
MaxScorers == 2

Workers == {"w1", "w2"}
Cases == 1..MaxCases
Null == "NULL"

\* --------------------------------------------------------------- vocabulary
SUPPORTED_SCHEMA == "v2"
RUN_REQUESTED == "experiment.run.requested"

NonTerminal == {"pending", "queued", "running", "trajectory", "scoring"}
Terminal == {"success", "failed", "timeout"}
CaseStatuses == NonTerminal \cup Terminal
ResultStatuses == {"success", "failed"}

VARIABLES
    \* Redis (locks.py)
    processing,      \* suffixes whose in-flight marker exists
    processed,       \* suffixes whose processed marker exists
    \* database (db_repository.py)
    caseStatus,      \* run_cases.status, by run case id
    exp,             \* the experiments row
    run_case_scores, \* run_case_scores.score rows, by run case id
    final_score,     \* run_cases.final_score, by run case id
    \* mock gateway (mock_gateway/runtime.py)
    gateway,         \* the module globals, the listener and the handles given out
    \* one case run by a runner (docker_runner.py, inspect_runner.py)
    caseRun,         \* its inputs, its position, what it holds and its result
    \* one scorer invocation (inspect_runner.py, evaluator_client.py)
    scoring,         \* its inputs, the job in the scorer pool and its score
    \* traces (otel_collector.py, otel_mapper.py, trace_repository.py)
    otel,            \* the collector, its span store and a trajectory lookup
    \* the broker connection (mq_consumer.py)
    consumer,        \* RabbitMqConsumer.start: its connection and where it is
    now,             \* CURRENT_TIMESTAMP
    txn,             \* the repository transaction in progress (SpecRepo)
    \* one delivery per consumer process
    pc,              \* where the process is
    body,            \* the payload delivered to it
    gateLog,         \* gate calls made for the delivery, with their answers
    brokerLog,       \* ack / nack attempts made for the delivery
    raised,          \* the exception propagating out of the current frame
    attempt,         \* i of _process_message's loop
    alog,            \* repository and runner calls of the current attempt
    run,             \* locals of _execute_cases and the runner's position
    hist             \* what the delivery has done so far

vars == <<processing, processed, caseStatus, exp, run_case_scores, final_score, gateway,
          caseRun, scoring, otel, consumer, now, txn, pc, body, gateLog, brokerLog, raised,
          attempt, alog, run, hist>>

\* What the delivery pipeline and the status writes leave alone.
auxVars == <<run_case_scores, final_score, gateway, caseRun, scoring, otel, consumer>>

gateVars == <<processing, processed>>
dbVars == <<caseStatus, exp>>

\* ------------------------------------------------------------ repository
\* A faulty table, to show what C38 rests on: no status has a filter.
AllowedFrom_NoFilter(status) == {}

\* _mark_case_status_*: the allowed predecessors of a status; {} is the
\* code's None, for which no status filter is added to the UPDATE.
AllowedFrom(status) ==
    CASE status = "running" -> {"pending", "queued", "trajectory"}
      [] status = "trajectory" -> {"running", "scoring"}
      [] status = "scoring" -> {"running", "trajectory"}
      [] OTHER -> {}

\* _update_case_status_*: UPDATE run_cases SET status WHERE id IN ids
\* [AND status IN allowed_from].
UpdateCaseStatus(rows, ids, status, allowed_from) ==
    [c \in Cases |->
        IF c \in ids /\ (allowed_from = {} \/ rows[c] \in allowed_from)
        THEN status ELSE rows[c]]

\* _mark_cases_queued_*
MarkCasesQueuedRows(rows, ids) == UpdateCaseStatus(rows, ids, "queued", {"pending"})

\* _mark_case_status_*
MarkCaseStatusRows(rows, c, status) ==
    UpdateCaseStatus(rows, {c}, status, AllowedFrom(status))

\* _persist_case_result_*: UPDATE run_cases SET status = result.status, ...
\* WHERE id = run_case_id.
PersistCaseRows(rows, c, status) == [rows EXCEPT ![c] = status]

Count(rows, S) == Cardinality({c \in Cases : rows[c] \in S})

\* A run_cases row the reconciler's SELECT does not count: is_latest is FALSE
\* or the row is of another experiment.
NotLatest == "not_latest"

\* A derivation that lets any failed case decide, to show what C15 rests on.
RunStatus_AnyFailed(rows) ==
    IF Count(rows, CaseStatuses) = 0 THEN "idle"
    ELSE IF Count(rows, NonTerminal) > 0 THEN "consuming"
    ELSE IF Count(rows, {"failed", "timeout"}) > 0 THEN "failed"
    ELSE "done"

\* _refresh_experiment_status_*: the run status derived from the counts.
RunStatus(rows) ==
    LET total == Count(rows, CaseStatuses)
        running == Count(rows, {"running", "trajectory", "scoring"})
        pending == Count(rows, {"pending", "queued"})
        success == Count(rows, {"success"})
        failed == Count(rows, {"failed", "timeout"})
    IN  IF total > 0 /\ (running > 0 \/ pending > 0) THEN "consuming"
        ELSE IF total > 0 /\ failed = 0 THEN "done"
        ELSE IF total > 0 /\ success = 0 THEN "failed"
        ELSE IF total > 0 THEN "done"
        ELSE "idle"

\* The two SELECTs with the early return taken for test_case as well.
RefreshRead_SkipTestCase(e, rows) ==
    [skip |-> e.queue_status \in {"manual_terminated", "test_case"},
     keep_test_case_status |-> e.queue_status = "test_case",
     run_status |-> RunStatus(rows)]

\* _refresh_experiment_status_*, its two SELECTs: what the reconciler has read.
RefreshRead(e, rows) ==
    [skip |-> e.queue_status = "manual_terminated",
     keep_test_case_status |-> e.queue_status = "test_case",
     run_status |-> RunStatus(rows)]

\* A faulty UPDATE, to show what C6 rests on: it writes the derived status
\* whatever was read.
RefreshWrite_Derived(e, d, t) ==
    [e EXCEPT
        !.queue_status = d.run_status,
        !.started_at = IF d.run_status = "consuming" /\ e.started_at = 0 THEN t
                       ELSE e.started_at,
        !.finished_at = IF d.run_status \in {"done", "failed"} THEN t
                        ELSE e.finished_at]

\* _refresh_experiment_status_*, its UPDATE experiments.
RefreshWrite(e, d, t) ==
    [e EXCEPT
        !.queue_status = IF d.keep_test_case_status THEN "test_case" ELSE d.run_status,
        !.started_at = IF d.run_status = "consuming" /\ e.started_at = 0 THEN t
                       ELSE e.started_at,
        !.finished_at = IF d.run_status \in {"done", "failed"} THEN t
                        ELSE e.finished_at]

\* The reconciler run inside one transaction with nothing in between.
Refresh(e, rows, t) ==
    LET d == RefreshRead(e, rows)
    IN  IF d.skip THEN e ELSE RefreshWrite(e, d, t)


\* ------------------------------------------------------------- payloads
\* What the broker can deliver.  complete: every key parse_message indexes
\* (run case fields, experiment, dataset, agent) is present and well typed.
RunCasesUpTo(n) == [i \in 1..n |-> i]

Payloads ==
    { [bytes |-> "b1", json_ok |-> TRUE, schema_version |-> "v2",
       message_type |-> RUN_REQUESTED, complete |-> TRUE, message_id |-> "m1",
       run_cases |-> RunCasesUpTo(MaxCases)],
      [bytes |-> "b2", json_ok |-> TRUE, schema_version |-> "absent",
       message_type |-> RUN_REQUESTED, complete |-> TRUE, message_id |-> "",
       run_cases |-> RunCasesUpTo(1)],
      [bytes |-> "b3", json_ok |-> TRUE, schema_version |-> "v2",
       message_type |-> RUN_REQUESTED, complete |-> TRUE, message_id |-> "m3",
       run_cases |-> <<>>],
      [bytes |-> "b4", json_ok |-> TRUE, schema_version |-> "v1",
       message_type |-> RUN_REQUESTED, complete |-> TRUE, message_id |-> "m4",
       run_cases |-> RunCasesUpTo(1)],
      [bytes |-> "b5", json_ok |-> TRUE, schema_version |-> "v2",
       message_type |-> "experiment.cancel.requested", complete |-> TRUE,
       message_id |-> "m5", run_cases |-> RunCasesUpTo(1)],
      [bytes |-> "b6", json_ok |-> TRUE, schema_version |-> "v2",
       message_type |-> "experiment.cancel.requested", complete |-> FALSE,
       message_id |-> "m6", run_cases |-> <<>>],
      [bytes |-> "b7", json_ok |-> TRUE, schema_version |-> "v2",
       message_type |-> "absent", complete |-> TRUE, message_id |-> "m7",
       run_cases |-> RunCasesUpTo(1)],
      [bytes |-> "b8", json_ok |-> FALSE, schema_version |-> "absent",
       message_type |-> "absent", complete |-> FALSE, message_id |-> "",
       run_cases |-> <<>>] }

NoPayload ==
    [bytes |-> "", json_ok |-> FALSE, schema_version |-> "absent",
     message_type |-> "absent", complete |-> FALSE, message_id |-> "",
     run_cases |-> <<>>]

Range(s) == {s[i] : i \in 1..Len(s)}

\* parse_message: "ok" or the error it raises.  schema_version defaults to
\* the supported one; the version is checked first, then the keys are read.
ParseMessage(p) ==
    IF p.schema_version \notin {SUPPORTED_SCHEMA, "absent"}
    THEN "E_UNSUPPORTED_SCHEMA_VERSION"
    ELSE IF ~p.complete \/ p.message_type = "absent" THEN "KeyError"
    ELSE "ok"

\* handle_raw_message up to the first gate call: json.loads, parse_message and
\* the message_type test, in that order.
Validate(p) ==
    IF ~p.json_ok THEN "JSONDecodeError"
    ELSE IF ParseMessage(p) # "ok" THEN ParseMessage(p)
    ELSE IF p.message_type # RUN_REQUESTED THEN "E_UNSUPPORTED_MESSAGE_TYPE"
    ELSE "ok"

\* hashlib.sha256(payload_bytes).hexdigest(): a string determined by the bytes.
Sha256Hex(payload_bytes) == "sha256(" \o payload_bytes \o ")"

\* RedisMessageLock.build_suffix: the message id when there is one, else the
\* digest of the body; both are plain strings in the same key space.
BuildSuffix(p) ==
    IF p.message_id # "" THEN p.message_id ELSE Sha256Hex(p.bytes)

Key(w) == BuildSuffix(body[w])

\* ------------------------------------------------------- progress callback
\* _status_from_phase
StatusFromPhase(phase) ==
    CASE phase \in {"sandbox_connect", "case_exec"} -> "running"
      [] phase = "otel_query" -> "trajectory"
      [] OTHER -> Null

Max(a, b) == IF a >= b THEN a ELSE b

\* A callback that does not count scorers: every score_exec writes scoring and
\* every score_done writes trajectory.
ProgressCallback_Uncounted(status_cache, scoring_active, c, phase) ==
    IF phase = "score_exec" THEN
        [scoring_active |-> [scoring_active EXCEPT ![c] = @ + 1],
         write |-> "scoring"]
    ELSE IF phase = "score_done" THEN
        [scoring_active |-> [scoring_active EXCEPT ![c] = Max(0, @ - 1)],
         write |-> "trajectory"]
    ELSE
        LET mapped_status == StatusFromPhase(phase)
        IN  [scoring_active |-> scoring_active,
             write |-> IF mapped_status = Null \/ status_cache[c] = mapped_status
                       THEN Null ELSE mapped_status]

\* progress_callback up to its repository call: the status it writes (Null:
\* none), the counter of active scorers after it, and the cached status it
\* stores once the write has returned.
ProgressCallback(status_cache, scoring_active, c, phase) ==
    IF phase = "score_exec" THEN
        LET current == scoring_active[c] + 1
        IN  [scoring_active |-> [scoring_active EXCEPT ![c] = current],
             write |-> IF current = 1 THEN "scoring" ELSE Null]
    ELSE IF phase = "score_done" THEN
        LET current == Max(0, scoring_active[c] - 1)
        IN  [scoring_active |-> [scoring_active EXCEPT ![c] = current],
             write |-> IF current = 0 THEN "trajectory" ELSE Null]
    ELSE
        LET mapped_status == StatusFromPhase(phase)
        IN  [scoring_active |-> scoring_active,
             write |-> IF mapped_status = Null \/ status_cache[c] = mapped_status
                       THEN Null ELSE mapped_status]

\* The phase events a runner that takes a progress callback reports for one
\* case, in order; it may stop reporting for a case that has ended.
Lifecycle == <<"sandbox_connect", "case_exec", "otel_query", "score_exec", "score_done">>

NewRun ==
    [accepts_callback |-> FALSE, case_idx |-> 1, phase_idx |-> 0,
     status_cache |-> [c \in Cases |-> Null],
     scoring_active |-> [c \in Cases |-> 0],
     case_results |-> [c \in Cases |-> Null],
     persist_idx |-> 1, failures |-> 0]

NewHist ==
    [read |-> FALSE, wrote |-> FALSE, launched |-> FALSE,
     skipped |-> FALSE, process |-> "none", exc |-> "none", handler |-> "none"]


\* ------------------------------------------------------------- initial state
NoTxn == [pc |-> "none"]

NewExperiment(qs, qm) ==
    [queue_status |-> qs, queue_message_id |-> qm, started_at |-> 0, finished_at |-> 0]

\* run_cases.final_score when it is NULL; a value is a fraction <<num, den>>.
NullScore == <<>>

\* ------------------------------------------------------------ mock gateway
MaxHandles == 4
Handles == 1..MaxHandles

\* run_case.mock_config: None, the default MockConfig(passthrough=True,
\* rules=[]) given explicitly, or a configuration with rules.
MockConfigs == {Null, "passthrough=true,rules=[]", "passthrough=false,rules=[r]"}

\* start_mock_gateway, line 88
EffectiveCfg(cfg) == IF cfg = Null THEN "passthrough=true,rules=[]" ELSE cfg

\* _signature_for_config with the default ingest
SignatureForConfig(cfg) == "{cfg:{" \o cfg \o "},ingest:default,port:14318}"

\* The module globals and the listening socket on port 14318.
NoShared ==
    [shared_handle |-> Null, shared_ref_count |-> 0, shared_signature |-> Null,
     listening |-> FALSE]

\* The gateway of a process that has started none: closing is TRUE while a
\* thread has left the lock of _release_shared_gateway with the server's
\* handle and has not yet closed it; handles: the handles returned to
\* callers so far, "open" while _closer is set; last: the last call.
GatewayDown ==
    [shared |-> NoShared, closing |-> FALSE, handles |-> <<>>, last |-> [op |-> "none"]]

\* ---------------------------------------------------------------- case run
\* CaseExecutionResult(run_case_id, status): error_message "" and exit_code 0
\* are the dataclass defaults.
CaseExecutionResult(status) ==
    [status |-> status, exit_code |-> 0, error_message |-> ""]

\* No case is being run.
NoCaseRun == [pc |-> "none"]

\* No scorer is being invoked.
NoScoring == [pc |-> "none"]

\* No collector has been started and no trajectory is being looked up.
NoOtel == [pc |-> "none"]

\* No consumer loop is followed.
NoConsumer == [pc |-> "none"]

\* A runner is called for a case: its arguments, the containers it has
\* created, its sidecar handle, the environment sample_init returned, the
\* exception caught, the result so far and how the call ended.
NewCaseRun(runner, has_inspect_ai, image, case_exec, after_exec, mock_config) ==
    [runner |-> runner, pc |-> "start", has_inspect_ai |-> has_inspect_ai,
     image |-> image, case_exec_command |-> case_exec,
     after_exec_command |-> after_exec, mock_config |-> mock_config,
     containers |-> {}, sidecar |-> "none", env |-> FALSE, exc |-> "none",
     result |-> CaseExecutionResult("none"), out |-> "none"]

\* No scorer rows and no final score yet.
NoScores ==
    /\ run_case_scores = [c \in Cases |-> <<>>]
    /\ final_score = [c \in Cases |-> NullScore]

WorkersIdle ==
    /\ pc = [w \in Workers |-> "idle"]
    /\ body = [w \in Workers |-> NoPayload]
    /\ gateLog = [w \in Workers |-> <<>>]
    /\ brokerLog = [w \in Workers |-> <<>>]
    /\ raised = [w \in Workers |-> "none"]
    /\ attempt = [w \in Workers |-> 0]
    /\ alog = [w \in Workers |-> <<>>]
    /\ run = [w \in Workers |-> NewRun]
    /\ hist = [w \in Workers |-> NewHist]
    /\ consumer = NoConsumer

\* The case rows exist (created upstream, pending); the experiment row is as
\* the platform left it: queued for this or another message, previewing, or
\* terminated by hand.
Init ==
    /\ processing = {}
    /\ processed = {}
    /\ caseStatus = [c \in Cases |-> "pending"]
    /\ exp \in {NewExperiment(qs, qm) :
                   qs \in {"queued", "manual_terminated"},
                   qm \in {Null, "m1", "m9"}}
    /\ NoScores
    /\ gateway = GatewayDown
    /\ scoring = NoScoring
    /\ otel = NoOtel
    /\ caseRun = NoCaseRun
    /\ now = 1
    /\ txn = NoTxn
    /\ WorkersIdle

\* ------------------------------------------------- RabbitMqConsumer, ingest
\* The broker hands a delivery to _on_message, which calls the handler:
\* handle_raw_message, lines 29-32 (decode, parse, message_type test).
\* w1 gets a message, w2 gets the same message again (a redelivery, or a
\* duplicate publish).
Receive(w, p) ==
    /\ pc[w] = "idle"
    /\ w = "w1" \/ (pc["w1"] # "idle" /\ p = body["w1"])
    /\ body' = [body EXCEPT ![w] = p]
    /\ LET v == Validate(p)
       IN  IF v = "ok"
           THEN /\ pc' = [pc EXCEPT ![w] = "already"]
                /\ UNCHANGED <<raised, hist>>
           ELSE /\ pc' = [pc EXCEPT ![w] = "nack"]
                /\ raised' = [raised EXCEPT ![w] = v]
                /\ hist' = [hist EXCEPT ![w].handler = "raised"]
    /\ UNCHANGED <<auxVars, gateVars, dbVars, now, txn, gateLog, brokerLog, attempt, alog, run>>

\* handle_raw_message, lines 40-42, with RedisMessageLock.already_processed.
AlreadyProcessed(w) ==
    /\ pc[w] = "already"
    /\ LET exists == Key(w) \in processed
       IN  /\ gateLog' = [gateLog EXCEPT ![w] = Append(@, <<"already_processed", exists>>)]
           /\ pc' = [pc EXCEPT ![w] = IF exists THEN "ack" ELSE "acquire"]
           /\ hist' = [hist EXCEPT ![w].handler = IF exists THEN "returned" ELSE @]
    /\ UNCHANGED <<auxVars, gateVars, dbVars, now, txn, body, brokerLog, raised, attempt, alog, run>>

\* A faulty gate, to show what C36 rests on: a delivery that finds the marker
\* held raises, and the consumer nacks it.
AcquireProcessing_RaisesWhenHeld(w) ==
    /\ pc[w] = "acquire"
    /\ LET locked == Key(w) \notin processing
       IN  /\ gateLog' = [gateLog EXCEPT ![w] = Append(@, <<"acquire_processing", locked>>)]
           /\ processing' = processing \cup {Key(w)}
           /\ pc' = [pc EXCEPT ![w] = IF locked THEN "preflight" ELSE "nack"]
           /\ hist' = [hist EXCEPT ![w].handler = IF locked THEN @ ELSE "raised"]
    /\ UNCHANGED <<auxVars, processed, dbVars, now, txn, body, brokerLog, raised, attempt, alog, run>>

\* handle_raw_message, lines 43-44, with RedisMessageLock.acquire_processing
\* (SET key 1 NX EX ttl).
AcquireProcessing(w) ==
    /\ pc[w] = "acquire"
    /\ LET locked == Key(w) \notin processing
       IN  /\ gateLog' = [gateLog EXCEPT ![w] = Append(@, <<"acquire_processing", locked>>)]
           /\ processing' = processing \cup {Key(w)}
           /\ pc' = [pc EXCEPT ![w] = IF locked THEN "preflight" ELSE "ack"]
           /\ hist' = [hist EXCEPT ![w].handler = IF locked THEN @ ELSE "returned"]
    /\ UNCHANGED <<auxVars, processed, dbVars, now, txn, body, brokerLog, raised, attempt, alog, run>>

\* _process_message, lines 62-77: the pre-flight read and its two skips.
Stale(e, p) ==
    e.queue_message_id \notin {Null, ""} /\ e.queue_message_id # p.message_id

\* A faulty pre-flight, to show what C9 rests on: it notes the skip and goes
\* on into the retry loop.
PreFlight_Fallthrough(w) ==
    /\ pc[w] = "preflight"
    /\ pc' = [pc EXCEPT ![w] = "loop"]
    /\ hist' = [hist EXCEPT ![w].read = TRUE,
                            ![w].skipped = exp.queue_status = "manual_terminated"
                                           \/ Stale(exp, body[w])]
    /\ UNCHANGED <<auxVars, gateVars, dbVars, now, txn, body, gateLog, brokerLog, raised, attempt,
                   alog, run>>

PreFlight(w) ==
    /\ pc[w] = "preflight"
    /\ \E db_ok \in BOOLEAN :
          IF ~db_ok
          THEN /\ raised' = [raised EXCEPT ![w] = "E_DB"]
               /\ pc' = [pc EXCEPT ![w] = "failed"]
               /\ hist' = [hist EXCEPT ![w].process = "raised", ![w].exc = "E_DB"]
          ELSE IF exp.queue_status = "manual_terminated" \/ Stale(exp, body[w])
          THEN /\ pc' = [pc EXCEPT ![w] = "mark"]
               /\ hist' = [hist EXCEPT ![w].read = TRUE, ![w].skipped = TRUE,
                                       ![w].process = "ok"]
               /\ UNCHANGED raised
          ELSE /\ pc' = [pc EXCEPT ![w] = "loop"]
               /\ hist' = [hist EXCEPT ![w].read = TRUE]
               /\ UNCHANGED raised
    /\ UNCHANGED <<auxVars, gateVars, dbVars, now, txn, body, gateLog, brokerLog, attempt, alog, run>>

\* A faulty loop, to show what C7 rests on: it allows one attempt more.
LoopNext_OneMore(w) ==
    /\ pc[w] = "loop"
    /\ IF attempt[w] < max_message_retries + 1
       THEN /\ attempt' = [attempt EXCEPT ![w] = @ + 1]
            /\ pc' = [pc EXCEPT ![w] = "queued"]
            /\ raised' = [raised EXCEPT ![w] = "none"]
            /\ UNCHANGED hist
       ELSE /\ raised' = [raised EXCEPT ![w] = "E_RUN_RETRIES_EXCEEDED"]
            /\ pc' = [pc EXCEPT ![w] = "failed"]
            /\ hist' = [hist EXCEPT ![w].process = "raised",
                                    ![w].exc = "E_RUN_RETRIES_EXCEEDED"]
            /\ UNCHANGED attempt
    /\ alog' = [alog EXCEPT ![w] = <<>>]
    /\ run' = [run EXCEPT ![w] = NewRun]
    /\ UNCHANGED <<auxVars, gateVars, dbVars, now, txn, body, gateLog, brokerLog>>

\* _process_message, lines 79-101: the next turn of the retry loop, or
\* E_RUN_RETRIES_EXCEEDED after the last one.
LoopNext(w) ==
    /\ pc[w] = "loop"
    /\ IF attempt[w] < max_message_retries
       THEN /\ attempt' = [attempt EXCEPT ![w] = @ + 1]
            /\ pc' = [pc EXCEPT ![w] = "queued"]
            /\ raised' = [raised EXCEPT ![w] = "none"]
            /\ UNCHANGED hist
       ELSE /\ raised' = [raised EXCEPT ![w] = "E_RUN_RETRIES_EXCEEDED"]
            /\ pc' = [pc EXCEPT ![w] = "failed"]
            /\ hist' = [hist EXCEPT ![w].process = "raised",
                                    ![w].exc = "E_RUN_RETRIES_EXCEEDED"]
            /\ UNCHANGED attempt
    /\ alog' = [alog EXCEPT ![w] = <<>>]
    /\ run' = [run EXCEPT ![w] = NewRun]
    /\ UNCHANGED <<auxVars, gateVars, dbVars, now, txn, body, gateLog, brokerLog>>


\* ---------------------------------------------------------- _execute_cases
RunCases(w) == body[w].run_cases
RunCaseIds(w) == Range(RunCases(w))

Log(w, entry) == alog' = [alog EXCEPT ![w] = Append(@, entry)]

\* An exception leaves _execute_cases: caught at line 90, the loop goes on.
AttemptRaises(w, exc) ==
    /\ raised' = [raised EXCEPT ![w] = exc]
    /\ pc' = [pc EXCEPT ![w] = "loop"]

\* A committed repository case write: the rows, then the reconciler.
CommitCaseWrite(rows) ==
    /\ caseStatus' = rows
    /\ exp' = Refresh(exp, rows, now)

\* _execute_cases, lines 110-114, with DbRepository.mark_cases_queued (which
\* returns at once for an empty id list).
MarkCasesQueued(w) ==
    /\ pc[w] = "queued"
    /\ Log(w, <<"mark_cases_queued", RunCaseIds(w)>>)
    /\ IF RunCaseIds(w) = {}
       THEN /\ pc' = [pc EXCEPT ![w] = "call"]
            /\ UNCHANGED <<dbVars, raised, hist>>
       ELSE \E db_ok \in BOOLEAN :
               IF db_ok
               THEN /\ CommitCaseWrite(MarkCasesQueuedRows(caseStatus, RunCaseIds(w)))
                    /\ pc' = [pc EXCEPT ![w] = "call"]
                    /\ hist' = [hist EXCEPT ![w].wrote = TRUE]
                    /\ UNCHANGED raised
               ELSE /\ AttemptRaises(w, "E_DB")
                    /\ UNCHANGED <<dbVars, hist>>
    /\ UNCHANGED <<auxVars, gateVars, now, txn, body, gateLog, brokerLog, attempt, run>>

\* _execute_cases, lines 160-168: run_cases is called with the progress
\* callback; a runner whose run_cases takes no such argument raises TypeError
\* at the call and is called again without it.
RunnerCall(w) ==
    /\ pc[w] = "call"
    /\ \E accepts \in BOOLEAN :
          /\ run' = [run EXCEPT ![w].accepts_callback = accepts]
          /\ Log(w, <<"run_cases", RunCases(w), accepts>>)
    /\ pc' = [pc EXCEPT ![w] = "running"]
    /\ hist' = [hist EXCEPT ![w].launched = TRUE]
    /\ UNCHANGED <<auxVars, gateVars, dbVars, now, txn, body, gateLog, brokerLog, raised, attempt>>

\* progress_callback, lines 125-158: one phase event reported by the runner
\* for the case it is running.  (What a runner does with an exception raised
\* by its callback is the runner's business; the callback's repository call
\* is taken to return.)
RunnerEvent(w) ==
    /\ pc[w] = "running"
    /\ run[w].accepts_callback
    /\ run[w].case_idx <= Len(RunCases(w))
    /\ run[w].phase_idx < Len(Lifecycle)
    /\ LET c == RunCases(w)[run[w].case_idx]
           phase == Lifecycle[run[w].phase_idx + 1]
           cb == ProgressCallback(run[w].status_cache, run[w].scoring_active, c, phase)
           stepped == [run[w] EXCEPT !.phase_idx = @ + 1,
                                     !.scoring_active = cb.scoring_active]
       IN  IF cb.write = Null
           THEN /\ run' = [run EXCEPT ![w] = stepped]
                /\ UNCHANGED <<dbVars, alog, hist>>
           ELSE /\ CommitCaseWrite(MarkCaseStatusRows(caseStatus, c, cb.write))
                /\ run' = [run EXCEPT ![w] =
                              [stepped EXCEPT !.status_cache[c] = cb.write]]
                /\ Log(w, <<"mark_case_status", c, cb.write>>)
                /\ hist' = [hist EXCEPT ![w].wrote = TRUE]
    /\ UNCHANGED <<auxVars, gateVars, now, txn, pc, body, gateLog, brokerLog, raised, attempt>>

\* The runner is done with a case: one that stopped right after
\* sandbox_connect has failed, one that went through every phase has either
\* result.  The runner goes on to the next case.
RunnerNextCase(w) ==
    /\ pc[w] = "running"
    /\ run[w].accepts_callback
    /\ run[w].case_idx <= Len(RunCases(w))
    /\ run[w].phase_idx \in {1, Len(Lifecycle)}
    /\ \E status \in ResultStatuses :
          /\ run[w].phase_idx < Len(Lifecycle) => status = "failed"
          /\ run' = [run EXCEPT ![w].case_idx = @ + 1, ![w].phase_idx = 0,
                                ![w].case_results[RunCases(w)[run[w].case_idx]] = status]
    /\ UNCHANGED <<auxVars, gateVars, dbVars, now, txn, pc, body, gateLog, brokerLog, raised,
                   attempt, alog, hist>>

\* run_cases returns one result per case: those of a runner that reported
\* its phases, any results from a runner that took no callback.
RunnerReturn(w) ==
    /\ pc[w] = "running"
    /\ IF run[w].accepts_callback
       THEN /\ run[w].case_idx > Len(RunCases(w))
            /\ UNCHANGED run
       ELSE \E r \in [RunCaseIds(w) -> ResultStatuses] :
               run' = [run EXCEPT ![w].case_results =
                          [c \in Cases |-> IF c \in RunCaseIds(w) THEN r[c] ELSE Null]]
    /\ Log(w, <<"runner_returned">>)
    /\ pc' = [pc EXCEPT ![w] = "persist"]
    /\ UNCHANGED <<auxVars, gateVars, dbVars, now, txn, body, gateLog, brokerLog, raised,
                   attempt, hist>>

\* A faulty persist loop, to show what C8 rests on: it counts a case that
\* did not succeed and does not persist it.
PersistNext_SkipsFailed(w) ==
    /\ pc[w] = "persist"
    /\ run[w].persist_idx <= Len(RunCases(w))
    /\ LET c == RunCases(w)[run[w].persist_idx]
           status == run[w].case_results[c]
       IN  IF status = "success"
           THEN /\ Log(w, <<"persist_case_result", c, status, TRUE>>)
                /\ CommitCaseWrite(PersistCaseRows(caseStatus, c, status))
                /\ run' = [run EXCEPT ![w].persist_idx = @ + 1]
                /\ hist' = [hist EXCEPT ![w].wrote = TRUE]
           ELSE /\ run' = [run EXCEPT ![w].persist_idx = @ + 1, ![w].failures = @ + 1]
                /\ UNCHANGED <<dbVars, alog, hist>>
    /\ UNCHANGED <<auxVars, gateVars, now, txn, pc, body, gateLog, brokerLog, raised, attempt>>

\* _execute_cases, lines 185-199: persist the next case's result and count it
\* when it is not a success.
PersistNext(w) ==
    /\ pc[w] = "persist"
    /\ run[w].persist_idx <= Len(RunCases(w))
    /\ LET c == RunCases(w)[run[w].persist_idx]
           status == run[w].case_results[c]
       IN  \E db_ok \in BOOLEAN :
              /\ Log(w, <<"persist_case_result", c, status, db_ok>>)
              /\ IF db_ok
                 THEN /\ CommitCaseWrite(PersistCaseRows(caseStatus, c, status))
                      /\ run' = [run EXCEPT ![w].persist_idx = @ + 1,
                                            ![w].failures = IF status # "success"
                                                            THEN @ + 1 ELSE @]
                      /\ hist' = [hist EXCEPT ![w].wrote = TRUE]
                      /\ UNCHANGED <<pc, raised>>
                 ELSE /\ AttemptRaises(w, "E_DB")
                      /\ UNCHANGED <<dbVars, run, hist>>
    /\ UNCHANGED <<auxVars, gateVars, now, txn, body, gateLog, brokerLog, attempt>>

\* _execute_cases, lines 221-229: after the last case, RuntimeError when any
\* case failed; otherwise the attempt returns and so does _process_message.
AttemptEnd(w) ==
    /\ pc[w] = "persist"
    /\ run[w].persist_idx > Len(RunCases(w))
    /\ IF run[w].failures > 0
       THEN /\ AttemptRaises(w, "RuntimeError")
            /\ Log(w, <<"raise", "RuntimeError">>)
            /\ UNCHANGED hist
       ELSE /\ pc' = [pc EXCEPT ![w] = "mark"]
            /\ Log(w, <<"return">>)
            /\ hist' = [hist EXCEPT ![w].process = "ok"]
            /\ UNCHANGED raised
    /\ UNCHANGED <<auxVars, gateVars, dbVars, now, txn, body, gateLog, brokerLog, attempt, run>>


\* ------------------------------------------- handle_raw_message, lines 46-52
\* A faulty mark, to show what C37 rests on: a message skipped at pre-flight
\* is not marked.
MarkProcessed_UnlessSkipped(w) ==
    /\ pc[w] = "mark"
    /\ processed' = IF hist[w].skipped THEN processed ELSE processed \cup {Key(w)}
    /\ gateLog' = [gateLog EXCEPT ![w] = Append(@, <<"mark_processed">>)]
    /\ pc' = [pc EXCEPT ![w] = "release"]
    /\ alog' = [alog EXCEPT ![w] = <<>>]
    /\ run' = [run EXCEPT ![w] = NewRun]
    /\ UNCHANGED <<auxVars, processing, dbVars, now, txn, body, brokerLog, raised, attempt, hist>>

\* line 48: mark_processed (SET processed key, long TTL).
MarkProcessed(w) ==
    /\ pc[w] = "mark"
    /\ processed' = processed \cup {Key(w)}
    /\ gateLog' = [gateLog EXCEPT ![w] = Append(@, <<"mark_processed">>)]
    /\ pc' = [pc EXCEPT ![w] = "release"]
    /\ alog' = [alog EXCEPT ![w] = <<>>]
    /\ run' = [run EXCEPT ![w] = NewRun]
    /\ UNCHANGED <<auxVars, processing, dbVars, now, txn, body, brokerLog, raised, attempt, hist>>

\* line 52: release_processing (DEL processing key), then return.
ReleaseProcessing(w) ==
    /\ pc[w] = "release"
    /\ processing' = processing \ {Key(w)}
    /\ gateLog' = [gateLog EXCEPT ![w] = Append(@, <<"release_processing">>)]
    /\ pc' = [pc EXCEPT ![w] = "ack"]
    /\ hist' = [hist EXCEPT ![w].handler = "returned"]
    /\ UNCHANGED <<auxVars, processed, dbVars, now, txn, body, brokerLog, raised, attempt, alog, run>>

\* A faulty except clause, to show what C2 rests on: it re-raises and leaves
\* the in-flight marker behind.
ReleaseOnError_KeepsMarker(w) ==
    /\ pc[w] = "failed"
    /\ pc' = [pc EXCEPT ![w] = "nack"]
    /\ hist' = [hist EXCEPT ![w].handler = "raised"]
    /\ UNCHANGED <<auxVars, gateVars, dbVars, now, txn, body, gateLog, brokerLog, raised, attempt,
                   alog, run>>

\* lines 49-51: except Exception: release_processing, then re-raise.
ReleaseOnError(w) ==
    /\ pc[w] = "failed"
    /\ processing' = processing \ {Key(w)}
    /\ gateLog' = [gateLog EXCEPT ![w] = Append(@, <<"release_processing">>)]
    /\ pc' = [pc EXCEPT ![w] = "nack"]
    /\ hist' = [hist EXCEPT ![w].handler = "raised"]
    /\ UNCHANGED <<auxVars, processed, dbVars, now, txn, body, brokerLog, raised, attempt, alog, run>>

\* ------------------------------------------- RabbitMqConsumer._on_message
ChannelSeenClosed(w) ==
    \E i \in 1..Len(brokerLog[w]) : brokerLog[w][i][2] = "skipped"

\* _safe_ack after the handler returned: nothing is sent on a closed channel,
\* basic_ack may fail; either way _on_message raises StreamLostError into its
\* own except clause.
SafeAck(w) ==
    /\ pc[w] = "ack"
    /\ \E outcome \in {"sent", "error", "skipped"} :
          /\ brokerLog' = [brokerLog EXCEPT ![w] = Append(@, <<"ack", outcome, FALSE>>)]
          /\ IF outcome = "sent"
             THEN /\ pc' = [pc EXCEPT ![w] = "done"]
                  /\ UNCHANGED raised
             ELSE /\ pc' = [pc EXCEPT ![w] = "nack"]
                  /\ raised' = [raised EXCEPT ![w] = "StreamLostError"]
    /\ UNCHANGED <<auxVars, gateVars, dbVars, now, txn, body, gateLog, attempt, alog, run, hist>>

\* A faulty nack, to show what C3 rests on: it asks the broker to requeue.
SafeNack_Requeue(w) ==
    /\ pc[w] = "nack"
    /\ \E outcome \in {"sent", "error", "skipped"} :
          /\ brokerLog' = [brokerLog EXCEPT ![w] = Append(@, <<"nack", outcome, TRUE>>)]
          /\ pc' = [pc EXCEPT ![w] = IF outcome = "sent" THEN "done" ELSE "crashed"]
    /\ UNCHANGED <<auxVars, gateVars, dbVars, now, txn, body, gateLog, raised, attempt, alog, run,
                   hist>>

\* _safe_nack(requeue=False) in the except clause: when the nack is sent the
\* exception is swallowed (raised keeps its name for the record), otherwise it
\* leaves _on_message.
SafeNack(w) ==
    /\ pc[w] = "nack"
    /\ \E outcome \in {"sent", "error", "skipped"} :
          /\ ChannelSeenClosed(w) => outcome = "skipped"
          /\ brokerLog' = [brokerLog EXCEPT ![w] = Append(@, <<"nack", outcome, FALSE>>)]
          /\ pc' = [pc EXCEPT ![w] = IF outcome = "sent" THEN "done" ELSE "crashed"]
    /\ UNCHANGED <<auxVars, gateVars, dbVars, now, txn, body, gateLog, raised, attempt, alog, run,
                   hist>>

\* ------------------------------------------------------------ specification
Next ==
    \E w \in Workers :
        \/ \E p \in Payloads : Receive(w, p)
        \/ AlreadyProcessed(w)
        \/ AcquireProcessing(w)
        \/ PreFlight(w)
        \/ LoopNext(w)
        \/ MarkCasesQueued(w)
        \/ RunnerCall(w)
        \/ RunnerEvent(w)
        \/ RunnerNextCase(w)
        \/ RunnerReturn(w)
        \/ PersistNext(w)
        \/ AttemptEnd(w)
        \/ MarkProcessed(w)
        \/ ReleaseProcessing(w)
        \/ ReleaseOnError(w)
        \/ SafeAck(w)
        \/ SafeNack(w)

Spec == Init /\ [][Next]_vars


\* ======================================================================
\* SpecRepo: one repository transaction at a time, statement by statement,
\* beside the platform, which writes the experiment row in transactions of
\* its own.
\* ======================================================================
workerVars == <<pc, body, gateLog, brokerLog, raised, attempt, alog, run, hist, consumer>>

InitRepo ==
    /\ processing = {}
    /\ processed = {}
    /\ caseStatus = [c \in Cases |-> "pending"]
    /\ exp \in {NewExperiment(qs, Null) : qs \in {"queued", "test_case", "manual_terminated"}}
    /\ NoScores
    /\ gateway = GatewayDown
    /\ scoring = NoScoring
    /\ otel = NoOtel
    /\ caseRun = NoCaseRun
    /\ now = 1
    /\ txn = NoTxn
    /\ WorkersIdle

TxnIdle == txn.pc \in {"none", "committed"}

\* A repository case write opens its transaction and runs its UPDATE
\* run_cases; the reconciler follows on the same cursor.
BeginCaseWrite(rows) ==
    /\ TxnIdle
    /\ caseStatus' = rows
    /\ txn' = [pc |-> "refresh"]
    /\ UNCHANGED <<auxVars, gateVars, exp, now, workerVars>>

\* DbRepository.mark_cases_queued (non-empty id list)
RepoMarkCasesQueued(ids) ==
    BeginCaseWrite(MarkCasesQueuedRows(caseStatus, ids))

\* DbRepository.mark_case_status, with the statuses the scheduler passes
RepoMarkCaseStatus(c, status) ==
    BeginCaseWrite(MarkCaseStatusRows(caseStatus, c, status))

\* DbRepository.persist_case_result
RepoPersistCaseResult(c, status) ==
    BeginCaseWrite(PersistCaseRows(caseStatus, c, status))

\* _refresh_experiment_status_*, lines 329-357: SELECT queue_status, return
\* when it is manual_terminated (the caller commits), else SELECT the counts.
RefreshSelect ==
    /\ txn.pc = "refresh"
    /\ LET d == RefreshRead(exp, caseStatus)
       IN  txn' = IF d.skip
                  THEN [pc |-> "committed", read |-> exp.queue_status,
                        updated |-> FALSE, found |-> exp.queue_status,
                        left |-> exp.queue_status]
                  ELSE [pc |-> "update", read |-> exp.queue_status, d |-> d]
    /\ UNCHANGED <<auxVars, gateVars, dbVars, now, workerVars>>

\* _refresh_experiment_status_*, lines 358-369: UPDATE experiments; the
\* caller commits.  found / left: queue_status as this UPDATE found and left it.
RefreshUpdate ==
    /\ txn.pc = "update"
    /\ exp' = RefreshWrite(exp, txn.d, now)
    /\ txn' = [pc |-> "committed", read |-> txn.read, updated |-> TRUE,
               found |-> exp.queue_status, left |-> exp'.queue_status]
    /\ UNCHANGED <<auxVars, gateVars, caseStatus, now, workerVars>>

\* The platform sets queue_status: a manual termination, a preview, a new run.
ExternalWrite(qs) ==
    /\ exp.queue_status # qs
    /\ exp' = [exp EXCEPT !.queue_status = qs]
    /\ UNCHANGED <<auxVars, gateVars, caseStatus, now, txn, workerVars>>

Tick ==
    /\ now < MaxClock
    /\ now' = now + 1
    /\ UNCHANGED <<auxVars, gateVars, dbVars, txn, workerVars>>

NextRepo ==
    \/ \E ids \in (SUBSET Cases) \ {{}} : RepoMarkCasesQueued(ids)
    \/ \E c \in Cases, status \in {"running", "trajectory", "scoring"} :
          RepoMarkCaseStatus(c, status)
    \/ \E c \in Cases, status \in Terminal : RepoPersistCaseResult(c, status)
    \/ RefreshSelect
    \/ RefreshUpdate
    \/ \E qs \in {"manual_terminated", "test_case", "queued"} : ExternalWrite(qs)
    \/ Tick

SpecRepo == InitRepo /\ [][NextRepo]_vars


\* ======================================================================
\* SpecPersist: persist_case_result statement by statement on one connection,
\* any statement of which may fail.
\* ======================================================================
RECURSIVE Gcd(_, _)
Gcd(a, b) == IF b = 0 THEN a ELSE Gcd(b, a % b)

RECURSIVE SumSeq(_)
SumSeq(q) == IF q = <<>> THEN 0 ELSE Head(q) + SumSeq(Tail(q))

\* SELECT AVG(score) FROM run_case_scores WHERE run_case_id = c: NULL over no
\* rows, else the mean, kept as a fraction in lowest terms.
Avg(rows) ==
    IF rows = <<>> THEN NullScore
    ELSE LET sum == SumSeq(rows)
             g == Gcd(Len(rows), IF sum < 0 THEN -sum ELSE sum)
         IN  <<SumSeq(rows) \div g, Len(rows) \div g>>

ScoreValues == {0, 1}

\* result.scorer_results: up to MaxScorers scores, none for a case that was
\* not scored.
ScorerResults == UNION {[1..n -> ScoreValues] : n \in 0..MaxScorers}

Database == [caseStatus |-> caseStatus, exp |-> exp,
             run_case_scores |-> run_case_scores, final_score |-> final_score]

persistVars == <<caseStatus, exp, run_case_scores, final_score>>

InitPersist ==
    /\ processing = {}
    /\ processed = {}
    /\ caseStatus = [c \in Cases |-> "pending"]
    /\ exp = NewExperiment("queued", Null)
    /\ NoScores
    /\ gateway = GatewayDown
    /\ scoring = NoScoring
    /\ otel = NoOtel
    /\ caseRun = NoCaseRun
    /\ now = 1
    /\ txn = NoTxn
    /\ WorkersIdle

\* persist_case_result: connect; nothing is written yet.  before: the rows
\* as committed, which is what a rollback leaves.  The persists followed here
\* are those of one case, the first one persisted: the statements of a
\* persist touch no row of another case.
PersistBegin(c, result) ==
    /\ txn.pc \in {"none", "committed", "rolled_back"}
    /\ txn.pc # "none" => c = txn.c
    /\ txn' = [pc |-> "update_case", c |-> c, result |-> result, i |-> 1,
               before |-> Database, dirty |-> Database, failed_at |-> "none",
               raised |-> "none"]
    /\ UNCHANGED <<gateVars, gateway, caseRun, scoring, otel, persistVars, now, workerVars>>

\* UPDATE run_cases SET status = ..., finished_at = ... WHERE id = c
PersistUpdateCase ==
    /\ txn.pc = "update_case"
    /\ caseStatus' = PersistCaseRows(caseStatus, txn.c, txn.result.status)
    /\ txn' = [txn EXCEPT !.pc = "delete_scores"]
    /\ UNCHANGED <<gateVars, gateway, caseRun, scoring, otel, exp, run_case_scores, final_score, now, workerVars>>

\* DELETE FROM run_case_scores WHERE run_case_id = c
PersistDeleteScores ==
    /\ txn.pc = "delete_scores"
    /\ run_case_scores' = [run_case_scores EXCEPT ![txn.c] = <<>>]
    /\ txn' = [txn EXCEPT !.pc = "insert_scores"]
    /\ UNCHANGED <<gateVars, gateway, caseRun, scoring, otel, caseStatus, exp, final_score, now, workerVars>>

\* for scorer in result.scorer_results: INSERT INTO run_case_scores
PersistInsertScore ==
    /\ txn.pc = "insert_scores"
    /\ IF txn.i <= Len(txn.result.scorer_results)
       THEN /\ run_case_scores' = [run_case_scores EXCEPT
                                     ![txn.c] = Append(@, txn.result.scorer_results[txn.i])]
            /\ txn' = [txn EXCEPT !.i = @ + 1]
       ELSE /\ txn' = [txn EXCEPT !.pc = "final_score"]
            /\ UNCHANGED run_case_scores
    /\ UNCHANGED <<gateVars, gateway, caseRun, scoring, otel, caseStatus, exp, final_score, now, workerVars>>

\* if result.scorer_results: UPDATE run_cases SET final_score = (SELECT AVG ...)
PersistFinalScore ==
    /\ txn.pc = "final_score"
    /\ final_score' = IF txn.result.scorer_results # <<>>
                      THEN [final_score EXCEPT ![txn.c] = Avg(run_case_scores[txn.c])]
                      ELSE final_score
    /\ txn' = [txn EXCEPT !.pc = "refresh"]
    /\ UNCHANGED <<gateVars, gateway, caseRun, scoring, otel, caseStatus, exp, run_case_scores, now, workerVars>>

\* self._refresh_experiment_status_*(cur, experiment_id)
PersistRefresh ==
    /\ txn.pc = "refresh"
    /\ exp' = Refresh(exp, caseStatus, now)
    /\ txn' = [txn EXCEPT !.pc = "commit"]
    /\ UNCHANGED <<gateVars, gateway, caseRun, scoring, otel, caseStatus, run_case_scores, final_score, now, workerVars>>

\* conn.commit()
PersistCommit ==
    /\ txn.pc = "commit"
    /\ txn' = [txn EXCEPT !.pc = "committed", !.before = Database, !.dirty = Database]
    /\ UNCHANGED <<gateVars, gateway, caseRun, scoring, otel, persistVars, now, workerVars>>

InPersist ==
    {"update_case", "delete_scores", "insert_scores", "final_score", "refresh", "commit"}

\* A faulty error path, to show what C12 rests on: the connection commits
\* what was written before the statement that failed.
PersistFail_KeepsWrites ==
    /\ txn.pc \in InPersist
    /\ txn' = [txn EXCEPT !.pc = "rolled_back", !.raised = "E_DB",
                          !.failed_at = txn.pc, !.dirty = Database]
    /\ UNCHANGED <<gateVars, gateway, caseRun, scoring, otel, persistVars, now, workerVars>>

\* The statement about to run raises (also commit itself): the exception
\* leaves the with-block / try-finally, the connection is closed without a
\* commit and the server rolls the transaction back; the exception goes on to
\* the caller.  dirty: the rows as the transaction had written them.
PersistFail ==
    /\ txn.pc \in InPersist
    /\ caseStatus' = txn.before.caseStatus
    /\ exp' = txn.before.exp
    /\ run_case_scores' = txn.before.run_case_scores
    /\ final_score' = txn.before.final_score
    /\ txn' = [txn EXCEPT !.pc = "rolled_back", !.raised = "E_DB",
                          !.failed_at = txn.pc, !.dirty = Database]
    /\ UNCHANGED <<gateVars, gateway, caseRun, scoring, otel, now, workerVars>>

PersistResults == [status : ResultStatuses, scorer_results : ScorerResults]

NextPersist ==
    \/ \E c \in Cases, result \in PersistResults : PersistBegin(c, result)
    \/ PersistUpdateCase
    \/ PersistDeleteScores
    \/ PersistInsertScore
    \/ PersistFinalScore
    \/ PersistRefresh
    \/ PersistCommit
    \/ PersistFail

SpecPersist == InitPersist /\ [][NextPersist]_vars

\* ======================================================================
\* SpecCallback: the progress callback of one attempt, called by a runner
\* with any sequence of phase events; each call runs to its end before the
\* next one starts.
\* ======================================================================
Scorers == 1..MaxScorers

\* Phases a runner reports that are not scorer events.
CasePhases == {"sandbox_connect", "case_exec", "case_done", "otel_query"}

NoEvent ==
    [c |-> 0, phase |-> "none", before |-> 0, after |-> 0, write |-> Null,
     prev_write |-> Null]

\* The attempt has called mark_cases_queued and run_cases; active: the
\* scorers of each case that have reported score_exec and not yet score_done;
\* matched: every score_done so far came after its own score_exec.
InitCallback ==
    /\ processing = {}
    /\ processed = {}
    /\ caseStatus = [c \in Cases |-> "queued"]
    /\ exp = [NewExperiment("consuming", Null) EXCEPT !.started_at = 1]
    /\ NoScores
    /\ gateway = GatewayDown
    /\ scoring = NoScoring
    /\ otel = NoOtel
    /\ caseRun = NoCaseRun
    /\ now = 1
    /\ txn = [pc |-> "callback",
              active |-> [c \in Cases |-> {}],
              matched |-> [c \in Cases |-> TRUE],
              last_write |-> [c \in Cases |-> Null],
              last |-> NoEvent]
    /\ WorkersIdle

\* One call progress_callback(c, phase), lines 125-158, with its
\* mark_case_status when it makes one.
Deliver(c, phase, active, matched) ==
    LET r == run["w1"]
        cb == ProgressCallback(r.status_cache, r.scoring_active, c, phase)
    IN  /\ txn.pc = "callback"
        /\ run' = [run EXCEPT !["w1"].scoring_active = cb.scoring_active,
                              !["w1"].status_cache[c] =
                                  IF cb.write = Null THEN @ ELSE cb.write]
        /\ IF cb.write = Null
           THEN UNCHANGED dbVars
           ELSE CommitCaseWrite(MarkCaseStatusRows(caseStatus, c, cb.write))
        /\ txn' = [txn EXCEPT
                      !.active[c] = active,
                      !.matched[c] = matched,
                      !.last_write[c] = IF cb.write = Null THEN @ ELSE cb.write,
                      !.last = [c |-> c, phase |-> phase,
                                before |-> Cardinality(txn.active[c]),
                                after |-> Cardinality(active),
                                write |-> cb.write,
                                prev_write |-> txn.last_write[c]]]
        /\ UNCHANGED <<auxVars, gateVars, now, pc, body, gateLog, brokerLog, raised,
                       attempt, alog, hist>>

PhaseEvent(c, phase) == Deliver(c, phase, txn.active[c], txn.matched[c])

\* Scorer k of case c starts.
ScoreExec(c, k) ==
    /\ k \notin txn.active[c]
    /\ Deliver(c, "score_exec", txn.active[c] \cup {k}, txn.matched[c])

\* Scorer k of case c is done; a runner may also report it for a scorer that
\* never reported its start.
ScoreDone(c, k) ==
    Deliver(c, "score_done", txn.active[c] \ {k},
            txn.matched[c] /\ k \in txn.active[c])

\* The runner reports on the first and on the last case of the batch, in any
\* order and interleaved.
ReportedCases == {1, MaxCases}

NextCallback ==
    \/ \E c \in ReportedCases, phase \in CasePhases : PhaseEvent(c, phase)
    \/ \E c \in ReportedCases, k \in Scorers : ScoreExec(c, k)
    \/ \E c \in ReportedCases, k \in Scorers : ScoreDone(c, k)

SpecCallback == InitCallback /\ [][NextCallback]_vars

\* ======================================================================
\* SpecReconcile: the case status writes of the repository, each with the
\* reconciler in its transaction, on an experiment whose cases are in any
\* state; some rows may not be latest rows of the experiment.
\* ======================================================================
InitReconcile ==
    /\ processing = {}
    /\ processed = {}
    /\ caseStatus \in [Cases -> CaseStatuses \cup {NotLatest}]
    /\ exp \in {NewExperiment(qs, Null) : qs \in {"queued", "test_case", "manual_terminated"}}
    /\ NoScores
    /\ gateway = GatewayDown
    /\ scoring = NoScoring
    /\ otel = NoOtel
    /\ caseRun = NoCaseRun
    /\ now = 1
    /\ txn = NoTxn
    /\ WorkersIdle

\* UPDATE run_cases, then _refresh_experiment_status_* on the same cursor,
\* then commit. before: the experiments row when the transaction began;
\* changed: the UPDATE changed a row; again: the reconciler had already run
\* on the rows as the transaction found them.
ReconcileAfter(rows) ==
    /\ caseStatus' = rows
    /\ exp' = Refresh(exp, rows, now)
    /\ txn' = [pc |-> "reconciled", before |-> exp, changed |-> rows # caseStatus,
               again |-> txn.pc = "reconciled"]
    /\ UNCHANGED <<auxVars, gateVars, now, workerVars>>

ReconcileMarkCasesQueued(ids) == ReconcileAfter(MarkCasesQueuedRows(caseStatus, ids))

ReconcileMarkCaseStatus(c, status) ==
    ReconcileAfter(MarkCaseStatusRows(caseStatus, c, status))

\* persist_case_result, for a case of the message (a latest row).
ReconcilePersistCaseResult(c, status) ==
    /\ caseStatus[c] # NotLatest
    /\ ReconcileAfter(PersistCaseRows(caseStatus, c, status))

NextReconcile ==
    \/ \E ids \in (SUBSET Cases) \ {{}} : ReconcileMarkCasesQueued(ids)
    \/ \E c \in Cases, status \in {"running", "trajectory", "scoring"} :
          ReconcileMarkCaseStatus(c, status)
    \/ \E c \in Cases, status \in ResultStatuses : ReconcilePersistCaseResult(c, status)
    \/ Tick

SpecReconcile == InitReconcile /\ [][NextReconcile]_vars

\* ======================================================================
\* SpecGateway: start_mock_gateway and MockGatewayHandle.close called by the
\* threads of one consumer process.
\* ======================================================================
InitGateway ==
    /\ processing = {}
    /\ processed = {}
    /\ caseStatus = [c \in Cases |-> "pending"]
    /\ exp = NewExperiment("queued", Null)
    /\ NoScores
    /\ gateway = GatewayDown
    /\ scoring = NoScoring
    /\ otel = NoOtel
    /\ caseRun = NoCaseRun
    /\ now = 1
    /\ txn = NoTxn
    /\ WorkersIdle

gatewayVars ==
    <<processing, processed, caseStatus, exp, run_case_scores, final_score, caseRun,
      scoring, otel, now, txn, workerVars>>

Returned(op, exc, signature) ==
    [op |-> op, raised |-> exc, signature |-> signature, before |-> gateway.shared]

\* start_mock_gateway when a gateway is shared: the signature is compared
\* and the count goes up, under _shared_lock.
StartShared(cfg) ==
    LET signature == SignatureForConfig(EffectiveCfg(cfg))
        g == gateway.shared
    IN  /\ g.shared_handle # Null
        /\ IF g.shared_signature # signature
           THEN gateway' = [gateway EXCEPT
                    !.last = Returned("start", "E_MOCK_GATEWAY_CONFIG_CONFLICT", signature)]
           ELSE /\ Len(gateway.handles) < MaxHandles
                /\ gateway' = [gateway EXCEPT
                      !.shared.shared_ref_count = @ + 1,
                      !.handles = Append(@, "open"),
                      !.last = Returned("start", "none", signature)]
        /\ UNCHANGED gatewayVars

\* start_mock_gateway when none is shared: MockGatewayServer.start binds
\* port 14318, which fails while the former server still listens.
StartServer(cfg) ==
    LET signature == SignatureForConfig(EffectiveCfg(cfg))
        g == gateway.shared
    IN  /\ g.shared_handle = Null
        /\ IF g.listening
           THEN gateway' = [gateway EXCEPT
                    !.last = Returned("start", "OSError", signature)]
           ELSE /\ Len(gateway.handles) < MaxHandles
                /\ gateway' = [gateway EXCEPT
                      !.shared = [shared_handle |-> "server", shared_ref_count |-> 1,
                                  shared_signature |-> signature, listening |-> TRUE],
                      !.handles = Append(@, "open"),
                      !.last = Returned("start", "none", signature)]
        /\ UNCHANGED gatewayVars

\* A close that releases nothing, to show what C17 rests on.
ReleaseSharedGateway_Keeps(g) == g

\* _release_shared_gateway, its part under _shared_lock.
ReleaseSharedGateway(g) ==
    LET count == IF g.shared_ref_count > 0 THEN g.shared_ref_count - 1
                 ELSE g.shared_ref_count
    IN  IF count # 0 THEN [g EXCEPT !.shared_ref_count = count]
        ELSE [g EXCEPT !.shared_ref_count = count, !.shared_handle = Null,
                       !.shared_signature = Null]

\* MockGatewayHandle.close: the closer is taken from the handle and called,
\* once; a second close of the handle finds none.
Close(h) ==
    /\ h \in DOMAIN gateway.handles
    /\ IF gateway.handles[h] = "open"
       THEN LET g == ReleaseSharedGateway(gateway.shared)
            IN  gateway' = [gateway EXCEPT
                    !.shared = g,
                    !.handles[h] = "closed",
                    !.closing = @ \/ (g.shared_handle = Null
                                       /\ gateway.shared.shared_handle # Null),
                    !.last = Returned("close", "none", Null)]
       ELSE gateway' = [gateway EXCEPT !.last = Returned("close_again", "none", Null)]
    /\ UNCHANGED gatewayVars

\* _release_shared_gateway after the lock: handle.close() shuts the server.
CloseServer ==
    /\ gateway.closing
    /\ gateway' = [gateway EXCEPT !.closing = FALSE, !.shared.listening = FALSE,
                                  !.last = Returned("close_server", "none", Null)]
    /\ UNCHANGED gatewayVars

NextGateway ==
    \/ \E cfg \in MockConfigs : StartShared(cfg)
    \/ \E cfg \in MockConfigs : StartServer(cfg)
    \/ \E h \in Handles : Close(h)
    \/ CloseServer

SpecGateway == InitGateway /\ [][NextGateway]_vars

\* ======================================================================
\* SpecCaseRun: one case run by DockerRunner.run_case or by
\* InspectRunner.run_cases, every docker command and every sidecar start
\* ending in each of the ways it can.
\* ======================================================================
ExitCodes == {0, 1}

InitCaseRun ==
    /\ processing = {}
    /\ processed = {}
    /\ caseStatus = [c \in Cases |-> "queued"]
    /\ exp = NewExperiment("queued", Null)
    /\ NoScores
    /\ gateway = GatewayDown
    /\ scoring = NoScoring
    /\ otel = NoOtel
    /\ caseRun \in {NewCaseRun(r, h, i, c, a, m) :
                        r \in {"docker", "inspect"}, h \in BOOLEAN, i \in {"", "image"},
                        c \in {"", "case_exec"}, a \in {"", "after_exec"},
                        m \in {Null, "passthrough=false,rules=[r]"}}
    /\ now = 1
    /\ txn = NoTxn
    /\ WorkersIdle

caseRunVars ==
    <<processing, processed, caseStatus, exp, run_case_scores, final_score, gateway,
      scoring, otel, now, txn, workerVars>>

At(runner, at) == caseRun.runner = runner /\ caseRun.pc = at

\* An exception leaves the try block of run_case for its except clause.
Except(exc) == caseRun' = [caseRun EXCEPT !.exc = exc, !.pc = "finally"]

\* run_case, lines 36-46
DockerStart ==
    /\ At("docker", "start")
    /\ IF caseRun.image = ""
       THEN caseRun' = [caseRun EXCEPT !.exc = "E_RUNTIME_SPEC_IMAGE_REQUIRED",
                                       !.out = "raised", !.pc = "done"]
       ELSE caseRun' = [caseRun EXCEPT !.result = CaseExecutionResult("failed"),
                                       !.pc = "sidecar"]
    /\ UNCHANGED caseRunVars

\* run_case, line 48: start_mock_gateway returns a handle or raises.
DockerSidecar(outcome) ==
    /\ At("docker", "sidecar")
    /\ IF outcome = "handle"
       THEN caseRun' = [caseRun EXCEPT !.sidecar = "open", !.pc = "pull"]
       ELSE caseRun' = [caseRun EXCEPT !.exc = outcome, !.out = "raised", !.pc = "done"]
    /\ UNCHANGED caseRunVars

\* _docker_pull
DockerPull(outcome) ==
    /\ At("docker", "pull")
    /\ IF outcome = "ok" THEN caseRun' = [caseRun EXCEPT !.pc = "run"] ELSE Except(outcome)
    /\ UNCHANGED caseRunVars

\* _docker_run: docker run -d --name bench-case-<id>
DockerRun(outcome) ==
    /\ At("docker", "run")
    /\ IF outcome = "ok"
       THEN caseRun' = [caseRun EXCEPT
                !.containers = @ \cup {"bench-case"},
                !.pc = IF caseRun.case_exec_command # "" THEN "ready" ELSE "wait"]
       ELSE Except(outcome)
    /\ UNCHANGED caseRunVars

\* _wait_container_ready
DockerWaitContainerReady(outcome) ==
    /\ At("docker", "ready")
    /\ IF outcome = "ok" THEN caseRun' = [caseRun EXCEPT !.pc = "exec"] ELSE Except(outcome)
    /\ UNCHANGED caseRunVars

\* A runner that calls every case a success, to show what C20 rests on.
Outcome_AlwaysSuccess(result, exit_code) ==
    [status |-> "success", exit_code |-> exit_code, error_message |-> ""]

\* run_case, lines 78-89, and solve, lines 292-304: the result of a case
\* whose command ended with exit_code.
Outcome(result, exit_code) ==
    [status |-> IF exit_code = 0 THEN "success" ELSE "failed",
     exit_code |-> exit_code,
     error_message |-> IF exit_code = 0 THEN result.error_message
                       ELSE "E_CASE_EXEC_NON_ZERO"]

\* _docker_exec of case_exec_command, then of after_exec_command when the
\* first ended with 0, then _docker_logs; lines 62-74 and 78-89.
DockerExec(exit_code, after_exit_code, outcome) ==
    /\ At("docker", "exec")
    /\ IF outcome = "ok"
       THEN caseRun' = [caseRun EXCEPT
                !.result = Outcome(@, IF exit_code = 0 /\ caseRun.after_exec_command # ""
                                      THEN after_exit_code ELSE exit_code),
                !.pc = "finally"]
       ELSE Except(outcome)
    /\ UNCHANGED caseRunVars

\* _docker_wait_and_logs, lines 76-89
DockerWaitAndLogs(exit_code, outcome) ==
    /\ At("docker", "wait")
    /\ IF outcome = "ok"
       THEN caseRun' = [caseRun EXCEPT !.result = Outcome(@, exit_code), !.pc = "finally"]
       ELSE Except(outcome)
    /\ UNCHANGED caseRunVars

\* run_case, lines 90-98: the except clause when an exception came, the
\* finally clause, the return.
DockerFinally ==
    /\ At("docker", "finally")
    /\ caseRun' = [caseRun EXCEPT
            !.result.error_message = IF caseRun.exc # "none" THEN caseRun.exc ELSE @,
            !.containers = @ \ {"bench-case"},
            !.sidecar = IF @ = "open" THEN "closed" ELSE @,
            !.out = "returned",
            !.pc = "done"]
    /\ UNCHANGED caseRunVars

\* run_cases, lines 101-129: the results when _run_inspect_eval_batch raised.
InspectFallback(exc) ==
    [status |-> "failed", exit_code |-> 0, error_message |-> exc]

\* run_cases up to inspect_eval: lines 102-104, 131-148, 181-208.
InspectStart ==
    /\ At("inspect", "start")
    /\ caseRun' =
         IF ~caseRun.has_inspect_ai
         THEN [caseRun EXCEPT !.result = InspectFallback("E_INSPECT_AI_REQUIRED"),
                              !.out = "returned", !.pc = "done"]
         ELSE IF caseRun.image = ""
         THEN [caseRun EXCEPT !.exc = "E_RUNTIME_SPEC_IMAGE_REQUIRED",
                              !.result = InspectFallback("E_RUNTIME_SPEC_IMAGE_REQUIRED"),
                              !.out = "returned", !.pc = "done"]
         ELSE IF caseRun.case_exec_command = ""
         THEN [caseRun EXCEPT !.exc = "E_RUNTIME_SPEC_CASE_EXEC_REQUIRED",
                              !.result = InspectFallback("E_RUNTIME_SPEC_CASE_EXEC_REQUIRED"),
                              !.out = "returned", !.pc = "done"]
         ELSE [caseRun EXCEPT !.result = [status |-> "failed", exit_code |-> 1,
                                          error_message |-> "E_CASE_NOT_EXECUTED"],
                              !.pc = "sample_init"]
    /\ UNCHANGED caseRunVars

\* ArcloopDockerSandbox.sample_init: pull, docker run -d --name inspect-sb-...,
\* then the wait for State.Running; it returns the environment or raises.
SampleInit(outcome) ==
    /\ At("inspect", "sample_init")
    /\ caseRun' =
         IF outcome = "ok"
         THEN [caseRun EXCEPT !.containers = @ \cup {"inspect-sb"}, !.env = TRUE,
                              !.pc = "solve"]
         ELSE IF outcome = "E_CONTAINER_STARTUP_TIMEOUT"
         THEN [caseRun EXCEPT !.containers = @ \cup {"inspect-sb"}, !.exc = outcome,
                              !.pc = "task_cleanup"]
         ELSE [caseRun EXCEPT !.exc = outcome, !.pc = "task_cleanup"]
    /\ UNCHANGED caseRunVars

\* solve, lines 252-314: start_mock_sidecar returns None for no
\* configuration; for a MockConfig it starts the wiremock container and then
\* reads cfg.routes, which MockConfig does not have.
Solve(exit_code, outcome) ==
    /\ At("inspect", "solve")
    /\ caseRun' =
         IF caseRun.mock_config # Null
         THEN [caseRun EXCEPT !.containers = @ \cup {"wiremock"}, !.exc = "AttributeError",
                              !.pc = "sample_cleanup"]
         ELSE IF outcome = "ok"
         THEN [caseRun EXCEPT !.result = [Outcome(@, exit_code) EXCEPT
                                  !.error_message = IF exit_code = 0 THEN ""
                                                    ELSE "E_AGENT_EXIT_NON_ZERO"],
                              !.pc = "sample_cleanup"]
         ELSE [caseRun EXCEPT !.exc = outcome, !.pc = "sample_cleanup"]
    /\ UNCHANGED caseRunVars

\* ArcloopDockerSandbox.sample_cleanup, called with the environments that
\* sample_init returned.
SampleCleanup ==
    /\ At("inspect", "sample_cleanup")
    /\ caseRun' = [caseRun EXCEPT
            !.containers = IF caseRun.env THEN @ \ {"inspect-sb"} ELSE @,
            !.pc = "task_cleanup"]
    /\ UNCHANGED caseRunVars

\* ArcloopDockerSandbox.task_cleanup: removes the containers whose label
\* arcloop.inspect.task is the slug of the task name it is called with;
\* the containers of sample_init carry the slug of the task.
TaskCleanup(task_name, cleanup) ==
    /\ At("inspect", "task_cleanup")
    /\ caseRun' = [caseRun EXCEPT
            !.containers = IF cleanup /\ task_name = "experiment" THEN @ \ {"inspect-sb"}
                           ELSE @,
            !.pc = "eval_return"]
    /\ UNCHANGED caseRunVars

\* inspect_eval returns its logs, lines 449-533, or raises, lines 108-129.
EvalReturn(outcome) ==
    /\ At("inspect", "eval_return")
    /\ outcome # "ok" => caseRun.exc # "none"
    /\ caseRun' = [caseRun EXCEPT
            !.result = IF outcome = "ok" THEN @ ELSE InspectFallback(outcome),
            !.out = "returned",
            !.pc = "done"]
    /\ UNCHANGED caseRunVars

NextCaseRun ==
    \/ DockerStart
    \/ \E outcome \in {"handle", "E_MOCK_GATEWAY_CONFIG_CONFLICT", "OSError"} :
          DockerSidecar(outcome)
    \/ \E outcome \in {"ok", "E_DOCKER_PULL", "E_DOCKER_PULL_TIMEOUT"} : DockerPull(outcome)
    \/ \E outcome \in {"ok", "E_DOCKER_CREATE", "E_DOCKER_RUN_TIMEOUT"} : DockerRun(outcome)
    \/ \E outcome \in {"ok", "E_CONTAINER_STARTUP_TIMEOUT"} : DockerWaitContainerReady(outcome)
    \/ \E exit_code \in ExitCodes, after_exit_code \in ExitCodes,
          outcome \in {"ok", "E_DOCKER_EXEC_TIMEOUT", "E_DOCKER_LOGS"} :
          DockerExec(exit_code, after_exit_code, outcome)
    \/ \E exit_code \in ExitCodes,
          outcome \in {"ok", "E_DOCKER_WAIT", "TimeoutExpired", "E_DOCKER_LOGS"} :
          DockerWaitAndLogs(exit_code, outcome)
    \/ DockerFinally
    \/ InspectStart
    \/ \E outcome \in {"ok", "E_DOCKER_PULL", "E_DOCKER_CREATE",
                       "E_CONTAINER_STARTUP_TIMEOUT"} : SampleInit(outcome)
    \/ \E exit_code \in ExitCodes, outcome \in {"ok", "TimeoutError"} :
          Solve(exit_code, outcome)
    \/ SampleCleanup
    \/ \E task_name \in {"experiment", "shutdown"}, cleanup \in BOOLEAN :
          TaskCleanup(task_name, cleanup)
    \/ \E outcome \in {"ok", "E_INSPECT_EVAL"} : EvalReturn(outcome)

SpecCaseRun == InitCaseRun /\ [][NextCaseRun]_vars

\* ======================================================================
\* SpecStartupRetry: InspectRunner._exec_case_with_startup_retry called by
\* the solver for one case, every exec ending in each of the ways it can
\* and the clock advancing while an exec runs and while the loop sleeps.
\* ======================================================================
\* str.lower() of one character
LowerChar(ch) ==
    CASE ch = "A" -> "a" [] ch = "B" -> "b" [] ch = "C" -> "c" [] ch = "D" -> "d"
      [] ch = "E" -> "e" [] ch = "F" -> "f" [] ch = "G" -> "g" [] ch = "H" -> "h"
      [] ch = "I" -> "i" [] ch = "J" -> "j" [] ch = "K" -> "k" [] ch = "L" -> "l"
      [] ch = "M" -> "m" [] ch = "N" -> "n" [] ch = "O" -> "o" [] ch = "P" -> "p"
      [] ch = "Q" -> "q" [] ch = "R" -> "r" [] ch = "S" -> "s" [] ch = "T" -> "t"
      [] ch = "U" -> "u" [] ch = "V" -> "v" [] ch = "W" -> "w" [] ch = "X" -> "x"
      [] ch = "Y" -> "y" [] ch = "Z" -> "z" [] OTHER -> ch

RECURSIVE Lower(_)
Lower(s) ==
    IF s = "" THEN "" ELSE LowerChar(SubSeq(s, 1, 1)) \o Lower(SubSeq(s, 2, Len(s)))

\* needle in s
Contains(needle, s) ==
    \E i \in 1..(Len(s) - Len(needle) + 1) : SubSeq(s, i, i + Len(needle) - 1) = needle

Whitespace == {" ", "\n", "\t"}

\* str.strip()
RECURSIVE Strip(_)
Strip(s) ==
    IF s = "" THEN ""
    ELSE IF SubSeq(s, 1, 1) \in Whitespace THEN Strip(SubSeq(s, 2, Len(s)))
    ELSE IF SubSeq(s, Len(s), Len(s)) \in Whitespace THEN Strip(SubSeq(s, 1, Len(s) - 1))
    ELSE s

\* _is_agent_not_ready_error, lines 654-663
IsAgentNotReadyError(returncode, logs) ==
    IF returncode = 7 THEN TRUE
    ELSE LET lowered == Lower(logs)
         IN \/ Contains("curl: (7)", lowered)
            \/ Contains("failed to connect", lowered)
            \/ Contains("couldn't connect to server", lowered)
            \/ Contains("connection refused", lowered)

\* What sb.exec can return: the exit code and the two streams.
ExecResults ==
    {[returncode |-> 0, stdout |-> "ok", stderr |-> ""],
     [returncode |-> 0, stdout |-> "", stderr |-> "Connection refused"],
     [returncode |-> 7, stdout |-> "", stderr |-> ""],
     [returncode |-> 7, stdout |-> "", stderr |-> "curl: (7) Failed to connect"],
     [returncode |-> 1, stdout |-> "Couldn't connect to server", stderr |-> ""],
     [returncode |-> 1, stdout |-> "", stderr |-> "CONNECTION REFUSED"],
     [returncode |-> 1, stdout |-> "", stderr |-> "Traceback"]}

\* runtime_spec.get("startup_timeout_seconds"): <<>> when the key is absent,
\* <<n>> when it holds n.
StartupTimeouts == {<<>>, <<-1>>, <<0>>, <<1>>, <<2>>}

\* The solver reaches the call for a case: execs lists, for every exec that
\* returned, its exit code, its raw_logs and the time.time() of line 561.
NewStartupRetry(startup_timeout_seconds) ==
    [pc |-> "retry_start", startup_timeout_seconds |-> startup_timeout_seconds,
     deadline |-> 0, attempt |-> 0, execs |-> <<>>, exc |-> "none",
     result |-> CaseExecutionResult("none")]

InitStartupRetry ==
    /\ processing = {}
    /\ processed = {}
    /\ caseStatus = [c \in Cases |-> "queued"]
    /\ exp = NewExperiment("queued", Null)
    /\ NoScores
    /\ gateway = GatewayDown
    /\ scoring = NoScoring
    /\ otel = NoOtel
    /\ caseRun \in {NewStartupRetry(t) : t \in StartupTimeouts}
    /\ now = 0
    /\ txn = NoTxn
    /\ WorkersIdle

startupRetryVars ==
    <<processing, processed, caseStatus, exp, run_case_scores, final_score, gateway,
      scoring, otel, txn, workerVars>>

\* lines 544-547
RetryStart ==
    /\ caseRun.pc = "retry_start"
    /\ LET configured == caseRun.startup_timeout_seconds
           startup_retry_seconds ==
               IF configured = <<>> \/ configured = <<0>> THEN 30 ELSE configured[1]
       IN caseRun' = [caseRun EXCEPT !.deadline = now + Max(startup_retry_seconds, 0),
                                     !.pc = "exec"]
    /\ UNCHANGED <<now, startupRetryVars>>

\* lines 550-556: the exec takes elapsed seconds and returns r, or the
\* command times out and _run_cmd raises TimeoutError.
SbExec(r, elapsed, outcome) ==
    /\ caseRun.pc = "exec"
    /\ now + elapsed <= MaxClock
    /\ now' = now + elapsed
    /\ IF outcome = "TimeoutError"
       THEN caseRun' = [caseRun EXCEPT !.attempt = @ + 1, !.exc = "TimeoutError",
                                       !.pc = "raised"]
       ELSE caseRun' =
                [caseRun EXCEPT
                    !.attempt = @ + 1,
                    !.execs = Append(@, [returncode |-> r.returncode,
                                         raw_logs |-> Strip(r.stdout \o "\n" \o r.stderr),
                                         at |-> now']),
                    !.pc = "check"]
    /\ UNCHANGED startupRetryVars

\* lines 557-562, the deadline never looked at
RetryCheck_NoDeadline ==
    /\ caseRun.pc = "check"
    /\ LET exec_result == caseRun.execs[Len(caseRun.execs)]
       IN IF exec_result.returncode = 0
          THEN caseRun' = [caseRun EXCEPT !.pc = "returned"]
          ELSE IF ~IsAgentNotReadyError(exec_result.returncode, exec_result.raw_logs)
          THEN caseRun' = [caseRun EXCEPT !.pc = "returned"]
          ELSE caseRun' = [caseRun EXCEPT !.pc = "sleep"]
    /\ UNCHANGED <<now, startupRetryVars>>

\* lines 557-562
RetryCheck ==
    /\ caseRun.pc = "check"
    /\ LET exec_result == caseRun.execs[Len(caseRun.execs)]
       IN IF exec_result.returncode = 0
          THEN caseRun' = [caseRun EXCEPT !.pc = "returned"]
          ELSE IF ~IsAgentNotReadyError(exec_result.returncode, exec_result.raw_logs)
          THEN caseRun' = [caseRun EXCEPT !.pc = "returned"]
          ELSE IF now >= caseRun.deadline
          THEN caseRun' = [caseRun EXCEPT !.pc = "returned"]
          ELSE caseRun' = [caseRun EXCEPT !.pc = "sleep"]
    /\ UNCHANGED <<now, startupRetryVars>>

\* line 569: asyncio.sleep(retry_interval_seconds), the default interval
RetrySleep ==
    /\ caseRun.pc = "sleep"
    /\ now + 1 <= MaxClock
    /\ now' = now + 1
    /\ caseRun' = [caseRun EXCEPT !.pc = "exec"]
    /\ UNCHANGED startupRetryVars

\* solve, lines 292-304: the execution record of the case
SolveRecord ==
    /\ caseRun.pc = "returned"
    /\ LET exec_result == caseRun.execs[Len(caseRun.execs)]
       IN caseRun' =
              [caseRun EXCEPT
                  !.result = [status |-> IF exec_result.returncode = 0
                                         THEN "success" ELSE "failed",
                              exit_code |-> exec_result.returncode,
                              error_message |-> IF exec_result.returncode = 0
                                                THEN "" ELSE "E_AGENT_EXIT_NON_ZERO"],
                  !.pc = "case_done"]
    /\ UNCHANGED <<now, startupRetryVars>>

NextStartupRetry ==
    \/ RetryStart
    \/ \E r \in ExecResults, elapsed \in 0..1, outcome \in {"ok", "TimeoutError"} :
          SbExec(r, elapsed, outcome)
    \/ RetryCheck
    \/ RetrySleep
    \/ SolveRecord

SpecStartupRetry == InitStartupRetry /\ [][NextStartupRetry]_vars

\* ======================================================================
\* SpecScorer: one scorer invocation for one case: score_fn submits
\* _score_case to the scorer pool and waits for it up to the hard timeout,
\* _score_case calls the evaluator backend through call_evaluator, the
\* response content goes through _extract_score, and the case is persisted
\* with the scorer row.  now counts half seconds here.
\* ======================================================================
TicksPerSecond == 2

\* Python floats, in hundredths.
DEFAULT_SCORE_SENTINEL == -100

\* A Python value found under "score": its type, its number in hundredths
\* (True is 1, False is 0) and its text.
PyValue(t, n, s) == [t |-> t, n |-> n, s |-> s]
PyNone == PyValue("NoneType", 0, "")
PyNumber(n) == PyValue("number", n, "")
PyBool(b) == PyValue("bool", IF b THEN 100 ELSE 0, "")
PyStr(s) == PyValue("str", 0, s)
PyList == PyValue("list", 0, "")

JsonObject(has_score, score, reason) ==
    [kind |-> "dict", has_score |-> has_score, score |-> score, reason |-> reason]
JsonOther(kind) == [kind |-> kind, has_score |-> FALSE, score |-> PyNone, reason |-> ""]

\* json.loads over the response contents tried
JsonLoads(text) ==
    CASE text = "{\"score\": 1, \"reason\": \"ok\"}" -> JsonObject(TRUE, PyNumber(100), "ok")
      [] text = "{\"score\": 0.5}" -> JsonObject(TRUE, PyNumber(50), "")
      [] text = "{\"score\": 0}" -> JsonObject(TRUE, PyNumber(0), "")
      [] text = "{\"score\": 0.95}" -> JsonObject(TRUE, PyNumber(95), "")
      [] text = "{\"score\": 0.9}" -> JsonObject(TRUE, PyNumber(90), "")
      [] text = "{\"score\": 0.6}" -> JsonObject(TRUE, PyNumber(60), "")
      [] text = "{\"score\": 0.59}" -> JsonObject(TRUE, PyNumber(59), "")
      [] text = "{\"score\": -2}" -> JsonObject(TRUE, PyNumber(-200), "")
      [] text = "{\"score\": 7}" -> JsonObject(TRUE, PyNumber(700), "")
      [] text = "{\"score\": true}" -> JsonObject(TRUE, PyBool(TRUE), "")
      [] text = "{\"score\": \"0.7\"}" -> JsonObject(TRUE, PyStr("0.7"), "")
      [] text = "{\"score\": \"high\"}" -> JsonObject(TRUE, PyStr("high"), "")
      [] text = "{\"score\": null}" -> JsonObject(TRUE, PyNone, "")
      [] text = "{\"score\": [1]}" -> JsonObject(TRUE, PyList, "")
      [] text = "{\"reason\": \"ok\"}" -> JsonObject(FALSE, PyNone, "ok")
      [] text = "[]" -> JsonOther("list")
      [] text = "0.5" -> JsonOther("float")
      [] text = "null" -> JsonOther("NoneType")
      [] OTHER -> JsonOther("JSONDecodeError")

\* What the evaluator can put in the content of its response: None (<<>>)
\* or a string (<<text>>).
RawContents ==
    {<<>>, <<"">>, <<" \n">>, <<"score: 1">>,
     <<"{\"score\": 1, \"reason\": \"ok\"}">>, <<"{\"score\": 0.5}">>, <<"{\"score\": 0}">>,
     <<"{\"score\": 0.95}">>, <<"{\"score\": 0.9}">>, <<"{\"score\": 0.6}">>,
     <<"{\"score\": 0.59}">>, <<"{\"score\": -2}">>, <<"{\"score\": 7}">>,
     <<"{\"score\": true}">>, <<"{\"score\": \"0.7\"}">>, <<"{\"score\": \"high\"}">>,
     <<"{\"score\": null}">>, <<"{\"score\": [1]}">>, <<"{\"reason\": \"ok\"}">>,
     <<"[]">>, <<"0.5">>, <<"null">>}

\* score in (0, 0.5, 1): Python equality, under which True equals 1
ScoreInTuple(score) == score.t \in {"number", "bool"} /\ score.n \in {0, 50, 100}

\* float(score): <<x>>, or <<>> when it raises
FloatOf(score) ==
    CASE score.t \in {"number", "bool"} -> <<score.n>>
      [] score.t = "str" /\ score.s = "0.7" -> <<70>>
      [] OTHER -> <<>>

Extracted(score, reason) == [exc |-> "none", score |-> score, reason |-> reason]

\* _extract_score, lines 209-229: what it returns, or the exception that
\* leaves it.
ExtractScore(raw_content) ==
    IF raw_content = <<>> \/ Strip(raw_content[1]) = ""
    THEN Extracted(-100, "E_EVALUATOR_EMPTY_CONTENT")
    ELSE LET parsed == JsonLoads(raw_content[1])
         IN IF parsed.kind = "JSONDecodeError"
            THEN Extracted(-100, "E_EVALUATOR_INVALID_JSON: " \o raw_content[1])
            ELSE IF parsed.kind # "dict"
            THEN [exc |-> "AttributeError", score |-> 0, reason |-> ""]
            ELSE LET score == IF parsed.has_score THEN parsed.score ELSE PyNone
                     reason == IF parsed.reason = "" THEN "no reason provided"
                               ELSE parsed.reason
                     numeric == FloatOf(score)
                 IN IF ScoreInTuple(score) THEN Extracted(score.n, reason)
                    ELSE IF numeric = <<>>
                    THEN Extracted(-100, "E_EVALUATOR_SCORE_INVALID: " \o reason)
                    ELSE IF numeric[1] >= 90 THEN Extracted(100, reason)
                    ELSE IF numeric[1] >= 60 THEN Extracted(50, reason)
                    ELSE Extracted(0, reason)

\* What one HTTP exchange with the backend can raise.
NoException == [type |-> "none", status |-> 0]
BackendExceptions ==
    {[type |-> "Timeout", status |-> 0], [type |-> "ConnectionError", status |-> 0],
     [type |-> "HTTPError", status |-> 503], [type |-> "HTTPError", status |-> 401],
     [type |-> "JSONDecodeError", status |-> 0]}

\* _is_retryable_exception
IsRetryableException(exc) ==
    \/ exc.type \in {"Timeout", "ConnectionError"}
    \/ exc.type = "HTTPError" /\ exc.status \in {408, 409, 425, 429, 500, 502, 503, 504}

\* scorer_spec.get("scorer_config"): <<>> when it is no dict, else the four
\* fields _score_case requires.
ScorerConfigs ==
    {<<>>} \cup
    {<<[base_url |-> b, api_key |-> k, model_name |-> m, prompt_template |-> p]>> :
        b \in {"", "http://evaluator"}, k \in {" ", "key"}, m \in {"", "model"},
        p \in {"", "prompt"}}

\* line 751
ConfigComplete(scorer_config) ==
    /\ scorer_config # <<>>
    /\ Strip(scorer_config[1].base_url) # ""
    /\ Strip(scorer_config[1].api_key) # ""
    /\ Strip(scorer_config[1].model_name) # ""
    /\ Strip(scorer_config[1].prompt_template) # ""

\* The job submitted to the scorer pool.
NoJob ==
    [pc |-> "none", attempt |-> 0, backend_calls |-> 0, exc |-> NoException,
     extract |-> <<>>, call_started_at |-> 0, done_at |-> 0, value |-> 0, reason |-> ""]

\* score_fn is called for a case once the solver has recorded status in
\* execution[run_case_id].
NewScoring(status, scorer_config, max_retries, scorer_hard_timeout_seconds) ==
    [pc |-> "score_fn", run_case_id |-> 1, status |-> status,
     scorer_config |-> scorer_config, max_retries |-> max_retries,
     scorer_hard_timeout_seconds |-> scorer_hard_timeout_seconds,
     submitted_at |-> 0, job |-> NoJob, timed_out |-> FALSE, score |-> <<>>,
     result |-> <<>>]

InitScorer ==
    /\ processing = {}
    /\ processed = {}
    /\ caseStatus = [c \in Cases |-> "running"]
    /\ exp = NewExperiment("consuming", Null)
    /\ NoScores
    /\ gateway = GatewayDown
    /\ caseRun = NoCaseRun
    /\ scoring \in {NewScoring(s, c, r, h) :
                        s \in {"success", "failed"}, c \in ScorerConfigs, r \in {0, 1},
                        h \in {0, 1}}
    /\ otel = NoOtel
    /\ now = 0
    /\ txn = NoTxn
    /\ WorkersIdle

scorerVars == <<processing, processed, gateway, caseRun, otel, txn, workerVars>>

ScoreFnDeadline ==
    scoring.submitted_at + TicksPerSecond * Max(1, scoring.scorer_hard_timeout_seconds)

\* score_fn, lines 338-353
ScoreFnSubmit ==
    /\ scoring.pc = "score_fn"
    /\ scoring' = [scoring EXCEPT !.pc = "waiting", !.submitted_at = now,
                                  !.job.pc = "score_case"]
    /\ UNCHANGED <<dbVars, run_case_scores, final_score, now, scorerVars>>

JobReturns(value, reason) ==
    scoring' = [scoring EXCEPT !.job.pc = "done", !.job.done_at = now,
                               !.job.value = value, !.job.reason = reason]

\* _score_case, lines 721-751 and 776
ScoreCase ==
    /\ scoring.job.pc = "score_case"
    /\ IF scoring.status # "success"
       THEN JobReturns(DEFAULT_SCORE_SENTINEL, "E_SCORE_DEFAULT_RUN_CASE_FAILED")
       ELSE IF ConfigComplete(scoring.scorer_config)
       THEN scoring' = [scoring EXCEPT !.job.pc = "call", !.job.attempt = 1,
                                       !.job.call_started_at = now]
       ELSE JobReturns(DEFAULT_SCORE_SENTINEL, "E_SCORE_DEFAULT_EVALUATOR_CONFIG_MISSING")
    /\ UNCHANGED <<dbVars, run_case_scores, final_score, now, scorerVars>>

\* _call_openai_compatible / _call_anthropic: the exchange raises exc, or
\* the response carries raw_content, which goes through _extract_score; what
\* that returns is returned by call_evaluator and by _score_case (line 772).
BackendCall(exc, raw_content) ==
    /\ scoring.job.pc = "call"
    /\ IF exc # NoException
       THEN scoring' = [scoring EXCEPT !.job.backend_calls = @ + 1, !.job.exc = exc,
                                       !.job.pc = "except"]
       ELSE LET out == ExtractScore(raw_content)
                extract == <<[raw_content |-> raw_content, out |-> out]>>
            IN IF out.exc # "none"
               THEN scoring' = [scoring EXCEPT
                                   !.job.backend_calls = @ + 1, !.job.extract = extract,
                                   !.job.exc = [type |-> out.exc, status |-> 0],
                                   !.job.pc = "except"]
               ELSE scoring' = [scoring EXCEPT
                                   !.job.backend_calls = @ + 1, !.job.extract = extract,
                                   !.job.exc = NoException, !.job.pc = "done",
                                   !.job.done_at = now, !.job.value = out.score,
                                   !.job.reason = out.reason]
    /\ UNCHANGED <<dbVars, run_case_scores, final_score, now, scorerVars>>

\* call_evaluator, lines 41 and 60-64: raise, or sleep and try again; the
\* backoff is half a second.
CallEvaluatorExcept ==
    /\ scoring.job.pc = "except"
    /\ LET attempts == Max(1, scoring.max_retries + 1)
       IN IF scoring.job.attempt >= attempts \/ ~IsRetryableException(scoring.job.exc)
          THEN /\ scoring' = [scoring EXCEPT !.job.pc = "raise"]
               /\ UNCHANGED now
          ELSE /\ now + 1 <= MaxClock
               /\ now' = now + 1
               /\ scoring' = [scoring EXCEPT !.job.attempt = @ + 1, !.job.pc = "call"]
    /\ UNCHANGED <<dbVars, run_case_scores, final_score, scorerVars>>

\* A faulty handler, to show what C22 rests on: the exception leaves
\* _score_case.
ScoreCaseExcept_Propagates ==
    /\ scoring.job.pc = "raise"
    /\ scoring' = [scoring EXCEPT !.job.pc = "raised", !.job.done_at = now]
    /\ UNCHANGED <<dbVars, run_case_scores, final_score, now, scorerVars>>

\* _score_case, lines 773-775
ScoreCaseExcept ==
    /\ scoring.job.pc = "raise"
    /\ JobReturns(DEFAULT_SCORE_SENTINEL,
                  "E_SCORE_DEFAULT_EVALUATOR_CALL_FAILED: " \o scoring.job.exc.type)
    /\ UNCHANGED <<dbVars, run_case_scores, final_score, now, scorerVars>>

\* A faulty wait, to show what C23 rests on: wait_for without a timeout.
ScoreFnResult_NoTimeout ==
    /\ scoring.pc = "waiting"
    /\ scoring.job.pc \in {"done", "raised"}
    /\ IF scoring.job.pc = "raised"
       THEN scoring' = [scoring EXCEPT !.pc = "score_fn_raised"]
       ELSE scoring' = [scoring EXCEPT
                           !.score = <<[score |-> scoring.job.value,
                                        reason |-> scoring.job.reason]>>,
                           !.pc = "scored"]
    /\ UNCHANGED <<dbVars, run_case_scores, final_score, now, scorerVars>>

\* score_fn, lines 355-358 and 386-405: the job ended before the timeout
\* fired.
ScoreFnResult ==
    /\ scoring.pc = "waiting"
    /\ scoring.job.pc \in {"done", "raised"}
    /\ scoring.job.done_at <= ScoreFnDeadline
    /\ IF scoring.job.pc = "raised"
       THEN scoring' = [scoring EXCEPT !.pc = "score_fn_raised"]
       ELSE scoring' = [scoring EXCEPT
                           !.score = <<[score |-> scoring.job.value,
                                        reason |-> scoring.job.reason]>>,
                           !.pc = "scored"]
    /\ UNCHANGED <<dbVars, run_case_scores, final_score, now, scorerVars>>

\* score_fn, lines 359-385: the timeout fired before the job ended; the
\* job's thread runs on and its result is dropped.
ScoreFnTimeout ==
    /\ scoring.pc = "waiting"
    /\ now >= ScoreFnDeadline
    /\ ~(scoring.job.pc \in {"done", "raised"} /\ scoring.job.done_at < ScoreFnDeadline)
    /\ scoring' = [scoring EXCEPT
                      !.timed_out = TRUE,
                      !.score = <<[score |-> DEFAULT_SCORE_SENTINEL,
                                   reason |-> "E_SCORE_DEFAULT_SCORER_TIMEOUT"]>>,
                      !.pc = "scored"]
    /\ UNCHANGED <<dbVars, run_case_scores, final_score, now, scorerVars>>

\* _run_inspect_eval_batch, lines 466-483 and 500-533: the case result with
\* the rows of the sample's scores.
EvalResult ==
    /\ scoring.pc = "scored"
    /\ scoring' = [scoring EXCEPT
                      !.result = <<[status |-> scoring.status,
                                    scorer_results |-> scoring.score]>>,
                      !.pc = "returned"]
    /\ UNCHANGED <<dbVars, run_case_scores, final_score, now, scorerVars>>

\* _execute_cases, lines 185-197: persist_case_result, committed.
ScorerPersist ==
    /\ scoring.pc = "returned"
    /\ LET c == scoring.run_case_id
           result == scoring.result[1]
           rows == [i \in 1..Len(result.scorer_results) |-> result.scorer_results[i].score]
       IN /\ caseStatus' = PersistCaseRows(caseStatus, c, result.status)
          /\ run_case_scores' = [run_case_scores EXCEPT ![c] = rows]
          /\ final_score' = IF rows # <<>> THEN [final_score EXCEPT ![c] = Avg(rows)]
                            ELSE final_score
          /\ exp' = Refresh(exp, caseStatus', now)
    /\ scoring' = [scoring EXCEPT !.pc = "persisted"]
    /\ UNCHANGED <<now, scorerVars>>

NextScorer ==
    \/ ScoreFnSubmit
    \/ ScoreCase
    \/ \E exc \in BackendExceptions : BackendCall(exc, <<>>)
    \/ \E raw_content \in RawContents : BackendCall(NoException, raw_content)
    \/ CallEvaluatorExcept
    \/ ScoreCaseExcept
    \/ ScoreFnResult
    \/ ScoreFnTimeout
    \/ EvalResult
    \/ ScorerPersist
    \/ Tick

SpecScorer == InitScorer /\ [][NextScorer]_vars

\* ======================================================================
\* SpecCollector: ConsumerWorker.start with the embedded OTLP collector:
\* OTelCollectorServer.start binds the listen port and starts the server
\* thread, the consumer starts, and each request the server thread gets
\* goes through do_POST and OTelSpanStore.ingest_spans, which appends to
\* the in-memory index and forwards to the storage sink.
\* ======================================================================
MaxSpans == 3
NanosPerMilli == 1000000

\* otel_collector.py, lines 63-71: a positive nano timestamp becomes a time
\* (kept in milliseconds), anything else None.
IsoFromNano(raw) ==
    IF raw = <<>> \/ raw[1] <= 0 THEN <<>> ELSE <<raw[1] \div NanosPerMilli>>

\* The spans of an OTLP payload as the agent sends them.
RawSpans ==
    {[spanId |-> <<"a">>, run_case_id |-> <<1>>, startTimeUnixNano |-> <<2 * NanosPerMilli>>],
     [spanId |-> <<>>, run_case_id |-> <<>>, startTimeUnixNano |-> <<0>>]}

\* lines 110-123
NormalizedSpan(span) ==
    [span_id |-> span.spanId,
     attributes |-> [run_case_id |-> span.run_case_id],
     start_time |-> IsoFromNano(span.startTimeUnixNano),
     end_time |-> <<>>]

\* lines 91-142: the payload's spans, none when it carries log records.
NormalizeOtelPayload(payload) ==
    IF payload.kind = "traces"
    THEN [i \in 1..Len(payload.records) |-> NormalizedSpan(payload.records[i])]
    ELSE <<>>

\* lines 163-199: one span per log record, none when the payload carries spans.
NormalizeOtelLogsPayload(payload) ==
    IF payload.kind = "logs"
    THEN [i \in 1..Len(payload.records) |-> NormalizedSpan(payload.records[i])]
    ELSE <<>>

PayloadRecords ==
    {<<>>} \cup {<<s>> : s \in RawSpans}
           \cup {<<s, s>> : s \in {r \in RawSpans : r.spanId = <<"a">>}}

\* A request body: one that does not decode, or a decoded OTLP payload.
OtlpPayloads ==
    {[kind |-> "invalid", records |-> <<>>]}
        \cup [kind : {"traces", "logs"}, records : PayloadRecords]

traces_path == "/api/otel/v1/traces"
logs_path == "/api/otel/v1/logs"
metrics_path == "/api/otel/v1/metrics"
RequestPaths == {traces_path, logs_path, metrics_path, "/"}

BindOutcomes == {"bound", "EADDRINUSE", "EACCES"}

NoRequest == [path |-> "", status |-> 0, inserted |-> 0, appended |-> 0, persisted |-> 0]

\* worker.py, lines 19-51: the worker as constructed, with the collector and
\* its store when both OTel settings are on.
NewWorker(otel_enabled, otel_collector_enabled) ==
    [pc |-> "worker_start",
     otel_collector |-> otel_enabled /\ otel_collector_enabled,
     httpd |-> FALSE, thread |-> FALSE,
     bind |-> "none", started |-> <<>>, exc |-> "none",
     spans |-> <<>>, storage |-> <<>>, last |-> NoRequest]

InitCollector ==
    /\ processing = {}
    /\ processed = {}
    /\ caseStatus = [c \in Cases |-> "queued"]
    /\ exp = NewExperiment("queued", Null)
    /\ NoScores
    /\ gateway = GatewayDown
    /\ caseRun = NoCaseRun
    /\ scoring = NoScoring
    /\ otel \in {NewWorker(e, c) : e, c \in BOOLEAN}
    /\ now = 0
    /\ txn = NoTxn
    /\ WorkersIdle

collectorVars ==
    <<processing, processed, caseStatus, exp, run_case_scores, final_score, gateway,
      caseRun, scoring, now, txn, workerVars>>

\* OTelCollectorServer.start, lines 287-289 and 366-389, with an EADDRINUSE
\* from the bind re-raised like any other OSError.
CollectorStart_Raises(c, bind) ==
    IF bind = "bound"
    THEN [c EXCEPT !.bind = bind, !.httpd = TRUE, !.thread = TRUE, !.started = <<TRUE>>]
    ELSE [c EXCEPT !.bind = bind, !.exc = "OSError"]

\* OTelCollectorServer.start, lines 287-289 and 366-389.
CollectorStart(c, bind) ==
    CASE bind = "bound" ->
           [c EXCEPT !.bind = bind, !.httpd = TRUE, !.thread = TRUE, !.started = <<TRUE>>]
      [] bind = "EADDRINUSE" ->
           [c EXCEPT !.bind = bind, !.httpd = FALSE, !.started = <<FALSE>>]
      [] OTHER ->
           [c EXCEPT !.bind = bind, !.exc = "OSError"]

\* ConsumerWorker.start, lines 54-55: the collector is started when there is
\* one; what start returns is not looked at, what it raises propagates.
WorkerStartCollector(bind) ==
    /\ otel.pc = "worker_start"
    /\ otel.otel_collector
    /\ LET c == CollectorStart(otel, bind)
       IN  otel' = [c EXCEPT !.pc = IF c.exc = "none" THEN "consumer_start" ELSE "raised"]
    /\ UNCHANGED collectorVars

\* ConsumerWorker.start, line 54 with no collector configured.
WorkerStartNoCollector ==
    /\ otel.pc = "worker_start"
    /\ ~otel.otel_collector
    /\ otel' = [otel EXCEPT !.pc = "consumer_start"]
    /\ UNCHANGED collectorVars

\* ConsumerWorker.start, lines 56-61: consumer.start enters the consume loop.
WorkerStartConsumer ==
    /\ otel.pc = "consumer_start"
    /\ otel' = [otel EXCEPT !.pc = "consuming"]
    /\ UNCHANGED collectorVars

\* OTelSpanStore.ingest_spans, lines 213-223: the index is extended, then the
\* sink persists the spans in one transaction (trace_repository.py, lines
\* 495-560) or raises, which is logged and dropped.
IngestSpans(c, spans, sink) ==
    IF spans = <<>>
    THEN [c EXCEPT !.last.inserted = 0]
    ELSE [c EXCEPT !.spans = @ \o spans,
                   !.storage = IF sink = "ok" THEN @ \o spans ELSE @,
                   !.last.appended = Len(spans),
                   !.last.persisted = IF sink = "ok" THEN Len(spans) ELSE 0,
                   !.last.inserted = Len(spans)]

\* do_POST, lines 295-361, served by the collector's thread.
DoPost(path, payload, sink) ==
    /\ otel.pc \in {"consumer_start", "consuming"}
    /\ otel.thread
    /\ Len(otel.spans) + Len(payload.records) <= MaxSpans
    /\ LET c == [otel EXCEPT !.last = [NoRequest EXCEPT !.path = path]]
       IN  otel' =
             CASE path \notin {traces_path, logs_path, metrics_path} ->
                    [c EXCEPT !.last.status = 404]
               [] payload.kind = "invalid" ->
                    [c EXCEPT !.last.status = 400]
               [] path = metrics_path ->
                    [c EXCEPT !.last.status = 200]
               [] path = logs_path ->
                    [IngestSpans(c, NormalizeOtelLogsPayload(payload), sink)
                        EXCEPT !.last.status = 200]
               [] OTHER ->
                    [IngestSpans(c, NormalizeOtelPayload(payload), sink)
                        EXCEPT !.last.status = 200]
    /\ UNCHANGED collectorVars

NextCollector ==
    \/ \E bind \in BindOutcomes : WorkerStartCollector(bind)
    \/ WorkerStartNoCollector
    \/ WorkerStartConsumer
    \/ \E path \in RequestPaths, payload \in OtlpPayloads, sink \in {"ok", "raises"} :
          DoPost(path, payload, sink)

SpecCollector == InitCollector /\ [][NextCollector]_vars

\* ======================================================================
\* SpecTrajectory: the persist loop of MessageProcessor._execute_cases for
\* one case: an empty result trajectory is looked up through
\* _trajectory_from_traces (repository logs, then repository spans, mapped
\* by otel_mapper), the case is persisted, and the batch ends.  The
\* collector's thread ingests spans meanwhile, and the worker's trajectory
\* source, OTelTraceRepository.fetch_spans_by_run_case, can be queried.
\* ======================================================================
MaxRows == 2

\* Time values of a span or log row: None, a datetime or well-formed ISO
\* text (held as the instant in ms), a number of seconds, other text.
NoTime == [kind |-> "none", v |-> 0]
IsoTime(ms) == [kind |-> "iso", v |-> ms]
Seconds(s) == [kind |-> "number", v |-> s]
BadText == [kind |-> "text", v |-> 0]

MillisPerSecond == 1000
EpochSecondsLimit == 1000000000

\* otel_mapper.py, lines 81-103 (numbers above 1e12 are beyond the range kept)
ToEpochMs(value) ==
    CASE value.kind = "none" -> 0
      [] value.kind = "number" ->
           IF value.v > EpochSecondsLimit THEN value.v ELSE value.v * MillisPerSecond
      [] value.kind = "iso" -> value.v
      [] OTHER -> 0

\* value or other, on time values: None and blank text are falsy.
TimeOr(value, other) ==
    IF value.kind = "none" \/ (value.kind = "number" /\ value.v = 0) THEN other ELSE value

\* str(x or ""), on an optional string
StrOrEmpty(x) == IF x = <<>> \/ x[1] = "" THEN "" ELSE x[1]

CharCode(ch) == CASE ch = "a" -> 97 [] ch = "b" -> 98 [] ch = "c" -> 99 [] OTHER -> 0

Codes(s) == [i \in 1..Len(s) |-> CharCode(SubSeq(s, i, i))]

\* Python's order on tuples and strings, on sequences of integers.
RECURSIVE IntSeqLeq(_, _)
IntSeqLeq(a, b) ==
    CASE a = <<>> -> TRUE
      [] b = <<>> -> FALSE
      [] a[1] < b[1] -> TRUE
      [] a[1] > b[1] -> FALSE
      [] OTHER -> IntSeqLeq(Tail(a), Tail(b))

RECURSIVE KeyLeq(_, _)
KeyLeq(k1, k2) ==
    CASE k1 = <<>> -> TRUE
      [] k2 = <<>> -> FALSE
      [] k1[1] = k2[1] -> KeyLeq(Tail(k1), Tail(k2))
      [] OTHER -> IntSeqLeq(k1[1], k2[1])

\* sorted(rows, key=...): stable, each row inserted after the rows whose key
\* is not greater.
RECURSIVE SortedByKey(_)
SortedByKey(keyed) ==
    IF keyed = <<>> THEN <<>>
    ELSE LET n == Len(keyed)
             x == keyed[n]
             sorted == SortedByKey(SubSeq(keyed, 1, n - 1))
             k == Cardinality({i \in 1..Len(sorted) : KeyLeq(sorted[i].key, x.key)})
         IN  SubSeq(sorted, 1, k) \o <<x>> \o SubSeq(sorted, k + 1, Len(sorted))

\* otel_mapper.py, lines 67-71
SpanSortKey(span) ==
    <<<<ToEpochMs(TimeOr(span.start_time, span.created_at))>>,
      <<ToEpochMs(span.end_time)>>,
      Codes(StrOrEmpty(span.span_id))>>

\* lines 11-30: the step made of a span
SpanStep(idx, span) ==
    LET start_ms == ToEpochMs(TimeOr(span.start_time, span.created_at))
        end_raw == ToEpochMs(span.end_time)
        end_ms == IF end_raw = 0 THEN start_ms ELSE end_raw
    IN  [step |-> idx,
         source |-> "otel.span",
         span_id |-> span.span_id,
         start_time_ms |-> start_ms,
         end_time_ms |-> end_ms,
         latency_ms |-> Max(0, end_ms - start_ms)]

\* lines 7-31, with latency_ms taken as end - start
MapSpansToTrajectory_SignedLatency(spans) ==
    LET ordered == SortedByKey([i \in 1..Len(spans) |->
                                  [key |-> SpanSortKey(spans[i]), row |-> spans[i]]])
    IN  [i \in 1..Len(ordered) |->
            [SpanStep(i, ordered[i].row) EXCEPT
                !.latency_ms = SpanStep(i, ordered[i].row).end_time_ms
                                  - SpanStep(i, ordered[i].row).start_time_ms]]

\* lines 7-31
MapSpansToTrajectory(spans) ==
    LET ordered == SortedByKey([i \in 1..Len(spans) |->
                                  [key |-> SpanSortKey(spans[i]), row |-> spans[i]]])
    IN  [i \in 1..Len(ordered) |-> SpanStep(i, ordered[i].row)]

\* lines 74-78
LogSortKey(log) ==
    <<<<ToEpochMs(TimeOr(log.event_time, log.created_at))>>,
      Codes(StrOrEmpty(log.trace_id)),
      Codes(StrOrEmpty(log.span_id))>>

\* lines 34-64
MapLogsToTrajectory(logs) ==
    LET ordered == SortedByKey([i \in 1..Len(logs) |->
                                  [key |-> LogSortKey(logs[i]), row |-> logs[i]]])
    IN  [i \in 1..Len(ordered) |->
            LET event_ms == ToEpochMs(TimeOr(ordered[i].row.event_time,
                                              ordered[i].row.created_at))
            IN  [step |-> i,
                 source |-> "otel.log",
                 span_id |-> ordered[i].row.span_id,
                 start_time_ms |-> event_ms,
                 end_time_ms |-> event_ms,
                 latency_ms |-> 0]]

\* Rows of the span table and spans of the index.
Span(span_id, run_case_id, start_time, end_time) ==
    [span_id |-> span_id, attributes |-> [run_case_id |-> run_case_id],
     start_time |-> start_time, end_time |-> end_time, created_at |-> NoTime]

TraceRows ==
    {Span(<<"a">>, <<1>>, IsoTime(2000), IsoTime(3000)),
     Span(<<"b">>, <<1>>, IsoTime(1000), IsoTime(4000)),
     Span(<<>>, <<1>>, NoTime, NoTime),
     Span(<<"a">>, <<1>>, IsoTime(2000), IsoTime(1000)),
     Span(<<"ab">>, <<1>>, Seconds(2), BadText),
     Span(<<"c">>, <<2>>, IsoTime(1000), IsoTime(2000))}

LogRow(trace_id, span_id, event_time) ==
    [trace_id |-> trace_id, span_id |-> span_id, event_time |-> event_time,
     created_at |-> IsoTime(1000)]

LogTables ==
    {<<>>,
     <<LogRow(<<"b">>, <<"a">>, IsoTime(2000)), LogRow(<<"a">>, <<"b">>, IsoTime(2000)),
       LogRow(<<>>, <<>>, NoTime)>>}

\* CaseExecutionResult.trajectory as a runner leaves it
PyTrajectory(kind, steps, text) == [kind |-> kind, steps |-> steps, text |-> text]
StdoutStep ==
    [step |-> 1, source |-> "stdout", span_id |-> <<>>, start_time_ms |-> 0,
     end_time_ms |-> 0, latency_ms |-> 0]
RunnerTrajectories ==
    {PyTrajectory("none", <<>>, ""), PyTrajectory("list", <<>>, ""),
     PyTrajectory("list", <<StdoutStep>>, ""), PyTrajectory("str", <<>>, " \n"),
     PyTrajectory("str", <<>>, "a"), PyTrajectory("dict", <<>>, "")}

\* message_processor.py, lines 272-279
IsEmptyTrajectory(trajectory) ==
    CASE trajectory.kind = "none" -> TRUE
      [] trajectory.kind = "list" -> Len(trajectory.steps) = 0
      [] trajectory.kind = "str" -> Strip(trajectory.text) = ""
      [] OTHER -> FALSE

\* otel_collector.py, lines 236-237
WindowSlackMs == 60000

\* OTelSpanStore.fetch_spans_by_run_case, lines 228-249 (limit not reached)
StoreFetchSpansByRunCase(spans, run_case_id, start_ms, end_ms) ==
    LET InWindow(span) ==
            LET ts == ToEpochMs(TimeOr(span.start_time, span.created_at))
            IN  ts >= start_ms - WindowSlackMs /\ ts <= end_ms + WindowSlackMs
        Matches(span) == span.attributes.run_case_id = <<run_case_id>> /\ InWindow(span)
        out == SelectSeq(spans, Matches)
    IN  [i \in 1..Len(out) |->
            SortedByKey([j \in 1..Len(out) |->
                [key |-> <<<<ToEpochMs(TimeOr(out[j].start_time, out[j].created_at))>>,
                           Codes(StrOrEmpty(out[j].span_id))>>,
                 row |-> out[j]]])[i].row]

\* TraceRepository.fetch_spans_by_run_case: the rows of the case.
RepoFetchSpansByRunCase(storage, run_case_id) ==
    SelectSeq(storage, LAMBDA span : span.attributes.run_case_id = <<run_case_id>>)

Consulted(source, rows) == [source |-> source, nonempty |-> rows # <<>>]

\* The processor after the runner returned the result of case 1, with the
\* worker's span store and the two repository tables.
NewResolution(status, trajectory, storage, log_rows) ==
    [pc |-> "persist_loop",
     run_case_id |-> 1,
     runner_result |-> [status |-> status, trajectory |-> trajectory],
     res |-> [status |-> status, trajectory |-> trajectory],
     spans |-> <<>>, storage |-> storage, log_rows |-> log_rows, last |-> NoRequest,
     consulted |-> <<>>, query_raised |-> FALSE,
     map_input |-> <<>>, patched |-> <<>>,
     source_consulted |-> <<>>, source_spans |-> <<>>,
     persisted |-> <<>>, failures |-> 0, exc |-> "none"]

StorageTables ==
    {<<>>} \cup UNION {[1..n -> TraceRows] : n \in 1..MaxRows}

InitTrajectory ==
    /\ processing = {}
    /\ processed = {}
    /\ caseStatus = [c \in Cases |-> "queued"]
    /\ exp = NewExperiment("queued", Null)
    /\ NoScores
    /\ gateway = GatewayDown
    /\ caseRun = NoCaseRun
    /\ scoring = NoScoring
    /\ otel \in {NewResolution(s, t, st, lg) :
                    s \in ResultStatuses, t \in RunnerTrajectories,
                    st \in StorageTables, lg \in LogTables}
    /\ now = 0
    /\ txn = NoTxn
    /\ WorkersIdle

\* message_processor.py, lines 185-187
PersistLoopCase ==
    /\ otel.pc = "persist_loop"
    /\ otel' = [otel EXCEPT !.pc = IF IsEmptyTrajectory(otel.res.trajectory)
                                   THEN "fetch_logs" ELSE "persist"]
    /\ UNCHANGED collectorVars

\* _trajectory_from_traces, lines 247-257, with the exception of the log
\* query leaving _execute_cases.
FetchLogs_Propagates(outcome) ==
    /\ otel.pc = "fetch_logs"
    /\ LET mapped == MapLogsToTrajectory(otel.log_rows)
       IN  otel' =
             IF outcome = "raises"
             THEN [otel EXCEPT !.pc = "raised", !.exc = "QueryError",
                               !.consulted = Append(@, Consulted("logs", <<>>)),
                               !.query_raised = TRUE]
             ELSE [otel EXCEPT !.pc = IF mapped # <<>> THEN "persist" ELSE "fetch_spans",
                               !.consulted = Append(@, Consulted("logs", otel.log_rows)),
                               !.patched = mapped]
    /\ UNCHANGED collectorVars

\* _trajectory_from_traces, lines 247-257 and 268-270: the repository's log
\* table first.
FetchLogs(outcome) ==
    /\ otel.pc = "fetch_logs"
    /\ LET mapped == MapLogsToTrajectory(otel.log_rows)
       IN  otel' =
             IF outcome = "raises"
             THEN [otel EXCEPT !.pc = "persist",
                               !.consulted = Append(@, Consulted("logs", <<>>)),
                               !.query_raised = TRUE]
             ELSE [otel EXCEPT !.pc = IF mapped # <<>> THEN "persist" ELSE "fetch_spans",
                               !.consulted = Append(@, Consulted("logs", otel.log_rows)),
                               !.patched = mapped]
    /\ UNCHANGED collectorVars

\* _trajectory_from_traces, lines 259-270: then the repository's span table.
FetchSpans(outcome) ==
    /\ otel.pc = "fetch_spans"
    /\ LET rows == RepoFetchSpansByRunCase(otel.storage, otel.run_case_id)
       IN  otel' =
             IF outcome = "raises"
             THEN [otel EXCEPT !.pc = "persist",
                               !.consulted = Append(@, Consulted("spans", <<>>)),
                               !.query_raised = TRUE]
             ELSE [otel EXCEPT !.pc = "persist",
                               !.consulted = Append(@, Consulted("spans", rows)),
                               !.map_input = rows,
                               !.patched = MapSpansToTrajectory(rows)]
    /\ UNCHANGED collectorVars

\* _execute_cases, lines 189-199: a non-empty lookup result replaces the
\* trajectory, the case is persisted and a failure is counted.
PersistCase ==
    /\ otel.pc = "persist"
    /\ LET res == IF otel.patched # <<>>
                  THEN [otel.res EXCEPT !.trajectory = PyTrajectory("list", otel.patched, "")]
                  ELSE otel.res
       IN  otel' = [otel EXCEPT !.pc = "batch_end",
                                !.res = res,
                                !.persisted = <<res>>,
                                !.failures = IF res.status # "success" THEN @ + 1 ELSE @]
    /\ UNCHANGED collectorVars

\* lines 221-229
BatchEnd ==
    /\ otel.pc = "batch_end"
    /\ otel' = IF otel.failures > 0
               THEN [otel EXCEPT !.pc = "raised", !.exc = "RuntimeError"]
               ELSE [otel EXCEPT !.pc = "done"]
    /\ UNCHANGED collectorVars

\* The collector's thread takes a span of the case while the lookup is under
\* way (OTelSpanStore.ingest_spans).
CollectorIngest(span, sink) ==
    /\ otel.pc \in {"persist_loop", "fetch_logs", "fetch_spans"}
    /\ Len(otel.spans) < MaxRows
    /\ Len(otel.storage) < MaxRows
    /\ otel' = IngestSpans(otel, <<span>>, sink)
    /\ UNCHANGED collectorVars

\* OTelTraceRepository.fetch_spans_by_run_case, otel_collector.py lines
\* 406-431, as built by the worker: the index, then the repository's span
\* table.
SourceFetchSpans(start_ms, end_ms, outcome) ==
    /\ otel.pc \in {"persist_loop", "fetch_logs", "fetch_spans", "persist"}
    /\ otel.source_consulted = <<>>
    /\ LET spans == StoreFetchSpansByRunCase(otel.spans, otel.run_case_id, start_ms, end_ms)
           rows == RepoFetchSpansByRunCase(otel.storage, otel.run_case_id)
       IN  otel' =
             CASE spans # <<>> ->
                    [otel EXCEPT !.source_consulted = <<Consulted("index", spans)>>,
                                 !.source_spans = spans]
               [] outcome = "raises" ->
                    [otel EXCEPT !.source_consulted =
                                     <<Consulted("index", spans), Consulted("spans", <<>>)>>,
                                 !.source_spans = spans]
               [] OTHER ->
                    [otel EXCEPT !.source_consulted =
                                     <<Consulted("index", spans), Consulted("spans", rows)>>,
                                 !.source_spans = rows]
    /\ UNCHANGED collectorVars

QueryOutcomes == {"ok", "raises"}

NextTrajectory ==
    \/ PersistLoopCase
    \/ \E outcome \in QueryOutcomes : FetchLogs(outcome)
    \/ \E outcome \in QueryOutcomes : FetchSpans(outcome)
    \/ PersistCase
    \/ BatchEnd
    \/ \E span \in {r \in TraceRows : r.start_time.kind = "iso" /\ r.span_id # <<"a">>},
          sink \in {"ok", "raises"} : CollectorIngest(span, sink)
    \/ \E window \in {<<0, 0>>, <<100000, 200000>>}, outcome \in QueryOutcomes :
          SourceFetchSpans(window[1], window[2], outcome)

SpecTrajectory == InitTrajectory /\ [][NextTrajectory]_vars

\* ======================================================================
\* SpecEpoch: _to_epoch_ms on a number.  Timestamps in nanoseconds do not
\* fit the integers of the checker, so a number is held as a decimal
\* m * 10^e and the conversion works on that form.
\* ======================================================================
Decimal(m, e) == [m |-> m, e |-> e]

RECURSIVE Pow10(_)
Pow10(n) == IF n = 0 THEN 1 ELSE 10 * Pow10(n - 1)

\* The same number with no trailing zero in m.
RECURSIVE Normal(_)
Normal(d) ==
    IF d.m = 0 THEN Decimal(0, 0)
    ELSE IF d.m % 10 = 0 THEN Normal(Decimal(d.m \div 10, d.e + 1))
    ELSE d

\* d > 10^k, for a normal d with at most MantissaDigits digits in m
MantissaDigits == 2
GreaterThanPow10(d, k) ==
    CASE d.m <= 0 -> FALSE
      [] d.e > k -> TRUE
      [] d.e = k -> d.m > 1
      [] k - d.e > MantissaDigits -> FALSE
      [] OTHER -> d.m > Pow10(k - d.e)

\* int(x): the fraction is cut off, toward zero.
IntOf(d) ==
    IF d.e >= 0 THEN Normal(d)
    ELSE LET p == Pow10(-d.e)
             q == IF d.m >= 0 THEN d.m \div p ELSE -((-d.m) \div p)
         IN  Normal(Decimal(q, 0))

Scaled(d, by) == Normal(Decimal(d.m, d.e + by))

NanosLimitExp == 12
SecondsLimitExp == 9
NanosToMillisExp == 6
SecondsToMillisExp == 3

\* otel_mapper.py, lines 84-89
NumberToEpochMs(value) ==
    IF GreaterThanPow10(value, NanosLimitExp)
    THEN IntOf(Scaled(value, -NanosToMillisExp))
    ELSE IF GreaterThanPow10(value, SecondsLimitExp)
    THEN IntOf(value)
    ELSE IntOf(Scaled(value, SecondsToMillisExp))

EpochInputs ==
    {Normal(Decimal(m, e)) : m \in {-3, 0, 1, 2, 17}, e \in -4..18}

InitEpoch ==
    /\ processing = {}
    /\ processed = {}
    /\ caseStatus = [c \in Cases |-> "queued"]
    /\ exp = NewExperiment("queued", Null)
    /\ NoScores
    /\ gateway = GatewayDown
    /\ caseRun = NoCaseRun
    /\ scoring = NoScoring
    /\ otel \in {[pc |-> "to_epoch_ms", value |-> v, result |-> <<>>] : v \in EpochInputs}
    /\ now = 0
    /\ txn = NoTxn
    /\ WorkersIdle

\* _to_epoch_ms(value) for a value that is an int or a float
ToEpochMsCall ==
    /\ otel.pc = "to_epoch_ms"
    /\ otel' = [otel EXCEPT !.pc = "returned", !.result = <<NumberToEpochMs(otel.value)>>]
    /\ UNCHANGED collectorVars

NextEpoch == ToEpochMsCall

SpecEpoch == InitEpoch /\ [][NextEpoch]_vars

\* ======================================================================
\* SpecOwnership: the repository case writes on a run_cases table that also
\* holds rows of another experiment.  Every call is made for the message's
\* experiment; the run case ids come from the message as delivered and may
\* name a row of the other experiment.  txn holds who owns each row, the
\* last call and the tables as that call found them.
\* ======================================================================
Experiments == {1, 2}

\* _update_case_status_*, lines 314-324: UPDATE run_cases SET status WHERE
\* experiment_id = ... AND id = ANY(ids) [AND status = ANY(allowed_from)].
UpdateCaseStatusOf(rows, owner, experiment_id, ids, status, allowed_from) ==
    UpdateCaseStatus(rows, {c \in ids : owner[c] = experiment_id}, status, allowed_from)

\* The rows the reconciler's SELECT counts, line 344: WHERE experiment_id = ...
RowsOf(rows, owner, experiment_id) ==
    [c \in Cases |-> IF owner[c] = experiment_id THEN rows[c] ELSE NotLatest]

StoredScores == {<<>>, <<0>>}

InitOwnership ==
    /\ processing = {}
    /\ processed = {}
    /\ caseStatus \in [Cases -> {"pending", "running", "success"}]
    /\ exp = NewExperiment("queued", Null)
    /\ run_case_scores \in [Cases -> StoredScores]
    /\ final_score = [c \in Cases |-> IF run_case_scores[c] = <<>> THEN NullScore
                                      ELSE Avg(run_case_scores[c])]
    /\ gateway = GatewayDown
    /\ caseRun = NoCaseRun
    /\ scoring = NoScoring
    /\ otel = NoOtel
    /\ now = 1
    /\ txn \in {[pc |-> "idle", experiment_id |-> 1, owner |-> o, call |-> "none",
                 ids |-> {}, before |-> <<>>] : o \in [Cases -> Experiments]}
    /\ WorkersIdle

ownershipVars == <<processing, processed, gateway, caseRun, scoring, otel, now, workerVars>>

Committed(call, ids) ==
    txn' = [txn EXCEPT !.pc = "committed", !.call = call, !.ids = ids,
                       !.before = [caseStatus |-> caseStatus,
                                   run_case_scores |-> run_case_scores,
                                   final_score |-> final_score]]

\* mark_cases_queued(experiment_id, run_case_ids), lines 255-261 and 281-326
OwnMarkCasesQueued(ids) ==
    /\ caseStatus' = UpdateCaseStatusOf(caseStatus, txn.owner, txn.experiment_id, ids,
                                        "queued", {"pending"})
    /\ exp' = Refresh(exp, RowsOf(caseStatus', txn.owner, txn.experiment_id), now)
    /\ Committed("mark_cases_queued", ids)
    /\ UNCHANGED <<run_case_scores, final_score, ownershipVars>>

\* mark_case_status(experiment_id, run_case_id, status), lines 263-326
OwnMarkCaseStatus(c, status) ==
    /\ caseStatus' = UpdateCaseStatusOf(caseStatus, txn.owner, txn.experiment_id, {c},
                                        status, AllowedFrom(status))
    /\ exp' = Refresh(exp, RowsOf(caseStatus', txn.owner, txn.experiment_id), now)
    /\ Committed("mark_case_status", {c})
    /\ UNCHANGED <<run_case_scores, final_score, ownershipVars>>

\* persist_case_result(experiment_id, run_case_id, result), lines 174-244:
\* the UPDATE, the DELETE and the INSERTs name the row by its id alone.
OwnPersistCaseResult(c, result) ==
    /\ caseStatus' = PersistCaseRows(caseStatus, c, result.status)
    /\ run_case_scores' = [run_case_scores EXCEPT ![c] = result.scorer_results]
    /\ final_score' = IF result.scorer_results # <<>>
                      THEN [final_score EXCEPT ![c] = Avg(result.scorer_results)]
                      ELSE final_score
    /\ exp' = Refresh(exp, RowsOf(caseStatus', txn.owner, txn.experiment_id), now)
    /\ Committed("persist_case_result", {c})
    /\ UNCHANGED ownershipVars

NextOwnership ==
    \/ \E ids \in (SUBSET Cases) \ {{}} : OwnMarkCasesQueued(ids)
    \/ \E c \in Cases, status \in {"running", "trajectory", "scoring"} :
          OwnMarkCaseStatus(c, status)
    \/ \E c \in Cases, status \in ResultStatuses, scorer_results \in {<<>>, <<1>>} :
          OwnPersistCaseResult(c, [status |-> status, scorer_results |-> scorer_results])

SpecOwnership == InitOwnership /\ [][NextOwnership]_vars

\* ======================================================================
\* SpecConsumer: RabbitMqConsumer.start: the loop that connects, consumes,
\* hands each delivery to _on_message (handler, ack, nack) and, when an
\* exception comes out of the try block, either sleeps and reconnects or
\* lets it leave start().
\* ======================================================================
MaxReconnects == 2

\* The classes an exception is an instance of (pika.exceptions, builtins).
ExceptionBases(exc) ==
    CASE exc = "StreamLostError" -> {"StreamLostError", "AMQPConnectionError", "AMQPError"}
      [] exc = "AMQPConnectionError" -> {"AMQPConnectionError", "AMQPError"}
      [] exc = "ChannelWrongStateError" -> {"ChannelWrongStateError", "AMQPChannelError", "AMQPError"}
      [] exc = "ChannelClosedByBroker" -> {"ChannelClosedByBroker", "AMQPChannelError", "AMQPError"}
      [] exc = "ConnectionResetError" -> {"ConnectionResetError", "OSError"}
      [] OTHER -> {exc}

\* mq_consumer.py, line 90: the except clause of start's try block.
StartCatches(exc) ==
    ExceptionBases(exc) \cap
        {"AMQPConnectionError", "StreamLostError", "OSError", "ChannelWrongStateError"} # {}

\* What the handler can raise: a payload error, exhausted retries, a lost
\* socket of a store.
HandlerExceptions == {"ValueError", "RuntimeError", "ConnectionResetError"}

\* What connecting and declaring the queue can raise.
ConnectExceptions == {"AMQPConnectionError", "ConnectionResetError", "ChannelClosedByBroker"}

NewConsumer ==
    [pc |-> "loop_top", connection |-> "none", channel_open |-> FALSE,
     exc |-> "none", origin |-> "none", handler_exc |-> "none",
     ack |-> "none", nack |-> "none", reconnects |-> 0, settled |-> 0]

InitConsumer ==
    /\ processing = {}
    /\ processed = {}
    /\ caseStatus = [c \in Cases |-> "queued"]
    /\ exp = NewExperiment("queued", Null)
    /\ NoScores
    /\ gateway = GatewayDown
    /\ caseRun = NoCaseRun
    /\ scoring = NoScoring
    /\ otel = NoOtel
    /\ now = 0
    /\ txn = NoTxn
    /\ pc = [w \in Workers |-> "idle"]
    /\ body = [w \in Workers |-> NoPayload]
    /\ gateLog = [w \in Workers |-> <<>>]
    /\ brokerLog = [w \in Workers |-> <<>>]
    /\ raised = [w \in Workers |-> "none"]
    /\ attempt = [w \in Workers |-> 0]
    /\ alog = [w \in Workers |-> <<>>]
    /\ run = [w \in Workers |-> NewRun]
    /\ hist = [w \in Workers |-> NewHist]
    /\ consumer = NewConsumer

consumerVars ==
    <<processing, processed, caseStatus, exp, run_case_scores, final_score, gateway,
      caseRun, scoring, otel, now, txn, pc, body, gateLog, brokerLog, raised, attempt,
      alog, run, hist>>

\* An exception leaves the try block of start, lines 90-100: a caught one is
\* logged and followed by the sleep, any other leaves start(); the finally
\* clause closes a connection that is still open.
TryExit(c, exc, origin) ==
    [c EXCEPT !.pc = IF StartCatches(exc) THEN "sleep" ELSE "exited",
              !.exc = exc, !.origin = origin,
              !.connection = IF @ = "open" THEN "closed" ELSE @,
              !.channel_open = FALSE]

\* lines 63-89: connect, declare the channel, basic_consume, start_consuming.
Connect(outcome) ==
    /\ consumer.pc = "loop_top"
    /\ consumer' =
          IF outcome = "ok"
          THEN [consumer EXCEPT !.pc = "consuming", !.connection = "open",
                                !.channel_open = TRUE, !.exc = "none", !.origin = "none"]
          ELSE TryExit([consumer EXCEPT !.connection = "none"], outcome, "connect")
    /\ UNCHANGED consumerVars

\* start_consuming raises when the connection is lost between deliveries.
ConnectionLost(exc) ==
    /\ consumer.pc = "consuming"
    /\ consumer' = TryExit([consumer EXCEPT !.connection = "lost"], exc, "start_consuming")
    /\ UNCHANGED consumerVars

\* _on_message, lines 73-74: the handler runs and returns or raises; the
\* channel may have been closed by the broker meanwhile.
OnMessageHandler(outcome, channel_open) ==
    /\ consumer.pc = "consuming"
    /\ consumer' = [consumer EXCEPT
                       !.pc = IF outcome = "returned" THEN "ack" ELSE "nack",
                       !.handler_exc = outcome,
                       !.exc = IF outcome = "returned" THEN "none" ELSE outcome,
                       !.channel_open = channel_open,
                       !.ack = "none", !.nack = "none"]
    /\ UNCHANGED consumerVars

\* lines 75-76 with _safe_ack, lines 37-46
OnMessageAck(outcome) ==
    /\ consumer.pc = "ack"
    /\ consumer.channel_open <=> outcome # "skipped"
    /\ consumer' =
          IF outcome = "sent"
          THEN [consumer EXCEPT !.pc = "consuming", !.ack = outcome,
                                !.settled = IF @ < MaxReconnects THEN @ + 1 ELSE @]
          ELSE [consumer EXCEPT !.pc = "nack", !.ack = outcome, !.exc = "StreamLostError"]
    /\ UNCHANGED consumerVars

\* lines 77-80 with _safe_nack, lines 49-58: a nack that is sent swallows
\* the exception, otherwise the exception is raised again and leaves
\* start_consuming.
OnMessageNack(outcome) ==
    /\ consumer.pc = "nack"
    /\ consumer.channel_open <=> outcome # "skipped"
    /\ consumer' =
          IF outcome = "sent"
          THEN [consumer EXCEPT !.pc = "consuming", !.nack = outcome, !.exc = "none",
                                !.settled = IF @ < MaxReconnects THEN @ + 1 ELSE @]
          ELSE TryExit([consumer EXCEPT !.nack = outcome], consumer.exc, "on_message")
    /\ UNCHANGED consumerVars

\* line 97, then the next turn of while True
SleepThenLoop ==
    /\ consumer.pc = "sleep"
    /\ consumer.reconnects < MaxReconnects
    /\ consumer' = [consumer EXCEPT !.pc = "loop_top", !.reconnects = @ + 1]
    /\ UNCHANGED consumerVars

NextConsumer ==
    \/ \E outcome \in {"ok"} \cup ConnectExceptions : Connect(outcome)
    \/ \E exc \in {"StreamLostError", "AMQPConnectionError"} : ConnectionLost(exc)
    \/ \E outcome \in {"returned"} \cup HandlerExceptions, channel_open \in BOOLEAN :
          OnMessageHandler(outcome, channel_open)
    \/ \E outcome \in {"sent", "error", "skipped"} : OnMessageAck(outcome)
    \/ \E outcome \in {"sent", "error", "skipped"} : OnMessageNack(outcome)
    \/ SleepThenLoop

SpecConsumer == InitConsumer /\ [][NextConsumer]_vars

\* ======================================================================
\* SpecInterleave: one attempt of _execute_cases whose cases run on threads
\* of their own.  Every repository case write is a transaction on a
\* connection of its own (psycopg.connect / pymysql.connect per call):
\* UPDATE run_cases, SELECT queue_status, SELECT the counts, UPDATE
\* experiments, commit.  caseStatus and exp hold what is committed; what a
\* transaction has written and not committed is in txn.  mark_cases_queued
\* comes before the threads start and the persists after run_cases returned,
\* so these run alone.
\* ======================================================================
\* The statuses progress_callback writes for a case that goes through
\* sandbox_connect, case_exec (cached), otel_query, score_exec, score_done.
PhaseWrites_ThenPersist == <<"running", "trajectory", "scoring", "trajectory", "success">>

PhaseWrites == <<"running", "trajectory", "scoring", "trajectory">>

\* A case's connection with no transaction open: idx counts the phase writes
\* made; e, snapshot and d are what the open transaction has read (<<>> until
\* then).
NewCaseTxn(c) ==
    [pc |-> "idle", c |-> c, idx |-> 0, status |-> Null, matched |-> FALSE,
     e |-> <<>>, snapshot |-> <<>>, d |-> <<>>]

\* The message that covers every latest case of the experiment.
WholeBatch == CHOOSE p \in Payloads : Len(p.run_cases) = MaxCases

\* What attempt i finds: pending rows of a queued experiment for the first
\* attempt, rows as an earlier attempt left them for a retry.
LeftByAttempt(i) ==
    IF i = 1 THEN {[c \in Cases |-> "pending"]}
    ELSE [Cases -> {"trajectory", "success", "failed"}]

InitInterleave ==
    /\ processing = {BuildSuffix(WholeBatch)}
    /\ processed = {}
    /\ \E i \in 1..max_message_retries :
          /\ attempt = [w \in Workers |-> IF w = "w1" THEN i ELSE 0]
          /\ caseStatus \in LeftByAttempt(i)
          /\ exp = NewExperiment(IF i = 1 THEN "queued" ELSE RunStatus(caseStatus), "m1")
    /\ NoScores
    /\ gateway = GatewayDown
    /\ caseRun = NoCaseRun
    /\ scoring = NoScoring
    /\ otel = NoOtel
    /\ consumer = NoConsumer
    /\ now = 1
    /\ txn = [c \in Cases |-> NewCaseTxn(c)]
    /\ pc = [w \in Workers |-> IF w = "w1" THEN "queued" ELSE "idle"]
    /\ body = [w \in Workers |-> IF w = "w1" THEN WholeBatch ELSE NoPayload]
    /\ gateLog = [w \in Workers |-> <<>>]
    /\ brokerLog = [w \in Workers |-> <<>>]
    /\ raised = [w \in Workers |-> "none"]
    /\ alog = [w \in Workers |-> <<>>]
    /\ run = [w \in Workers |-> NewRun]
    /\ hist = [w \in Workers |-> NewHist]

interleaveVars ==
    <<processing, processed, run_case_scores, final_score, gateway, caseRun, scoring, otel,
      consumer, now, body, gateLog, brokerLog, raised, attempt, alog>>

\* _execute_cases, lines 110-114: mark_cases_queued, alone.
BatchMarkCasesQueued ==
    /\ pc["w1"] = "queued"
    /\ CommitCaseWrite(MarkCasesQueuedRows(caseStatus, RunCaseIds("w1")))
    /\ pc' = [pc EXCEPT !["w1"] = "running"]
    /\ hist' = [hist EXCEPT !["w1"].wrote = TRUE]
    /\ UNCHANGED <<interleaveVars, txn, run>>

\* _update_case_status_*, the UPDATE run_cases of the case's next phase
\* write, on a new connection: the row is written and not yet committed.
TxnUpdateCase(c) ==
    /\ pc["w1"] = "running"
    /\ txn[c].pc = "idle"
    /\ txn[c].idx < Len(PhaseWrites)
    /\ LET status == PhaseWrites[txn[c].idx + 1]
       IN  txn' = [txn EXCEPT ![c] =
                      [NewCaseTxn(c) EXCEPT
                          !.pc = "select", !.idx = txn[c].idx + 1, !.status = status,
                          !.matched = UpdateCaseStatus(caseStatus, {c}, status,
                                                       AllowedFrom(status))[c] = status]]
    /\ UNCHANGED <<interleaveVars, dbVars, pc, run, hist>>

\* _refresh_experiment_status_*, lines 330-333: SELECT queue_status reads the
\* committed row; with REPEATABLE READ this is where the snapshot is taken.
TxnSelectQueueStatus(c) ==
    /\ txn[c].pc = "select"
    /\ txn' = [txn EXCEPT ![c].pc = IF exp.queue_status = "manual_terminated"
                                    THEN "commit" ELSE "count",
                          ![c].e = <<exp>>, ![c].snapshot = <<caseStatus>>]
    /\ UNCHANGED <<interleaveVars, dbVars, pc, run, hist>>

\* The rows a transaction sees: those of its view with its own write.
OwnView(t, view) ==
    IF t.matched THEN [view EXCEPT ![t.c] = t.status] ELSE view

\* lines 335-357: SELECT the counts, over the rows committed by now (READ
\* COMMITTED, the default of PostgreSQL) or at the snapshot (REPEATABLE READ,
\* the default of MySQL), with the transaction's own write.
TxnSelectCounts(c) ==
    /\ txn[c].pc = "count"
    /\ \E view \in {caseStatus, txn[c].snapshot[1]} :
          txn' = [txn EXCEPT
                     ![c].pc = "update",
                     ![c].d = <<RefreshRead(txn[c].e[1], OwnView(txn[c], view))>>]
    /\ UNCHANGED <<interleaveVars, dbVars, pc, run, hist>>

\* lines 358-369: UPDATE experiments takes the row lock, so it waits while
\* another transaction holds it.
TxnUpdateExperiment(c) ==
    /\ txn[c].pc = "update"
    /\ \A o \in Cases \ {c} : ~(txn[o].pc = "commit" /\ txn[o].d # <<>>)
    /\ txn' = [txn EXCEPT ![c].pc = "commit"]
    /\ UNCHANGED <<interleaveVars, dbVars, pc, run, hist>>

\* conn.commit(): the row write and the experiment write become visible.
TxnCommit(c) ==
    /\ txn[c].pc = "commit"
    /\ caseStatus' = OwnView(txn[c], caseStatus)
    /\ exp' = IF txn[c].d = <<>> THEN exp ELSE RefreshWrite(exp, txn[c].d[1], now)
    /\ txn' = [txn EXCEPT ![c] = [NewCaseTxn(c) EXCEPT !.idx = txn[c].idx]]
    /\ run' = [run EXCEPT !["w1"].status_cache[c] = txn[c].status]
    /\ hist' = [hist EXCEPT !["w1"].wrote = TRUE]
    /\ UNCHANGED <<interleaveVars, pc>>

\* run_cases returns when every case has ended, with a result for each.
BatchRunnerReturn ==
    /\ pc["w1"] = "running"
    /\ \A c \in Cases : txn[c].pc = "idle" /\ txn[c].idx = Len(PhaseWrites)
    /\ \E r \in [Cases -> ResultStatuses] :
          run' = [run EXCEPT !["w1"].case_results = r]
    /\ pc' = [pc EXCEPT !["w1"] = "persist"]
    /\ UNCHANGED <<interleaveVars, dbVars, txn, hist>>

\* _execute_cases, lines 185-197: persist_case_result, one case after the
\* other on the calling thread.
BatchPersistNext ==
    /\ pc["w1"] = "persist"
    /\ run["w1"].persist_idx <= Len(RunCases("w1"))
    /\ LET c == RunCases("w1")[run["w1"].persist_idx]
       IN  CommitCaseWrite(PersistCaseRows(caseStatus, c, run["w1"].case_results[c]))
    /\ run' = [run EXCEPT !["w1"].persist_idx = @ + 1]
    /\ UNCHANGED <<interleaveVars, txn, pc, hist>>

\* lines 221-229: the attempt ends.
BatchEnds ==
    /\ pc["w1"] = "persist"
    /\ run["w1"].persist_idx > Len(RunCases("w1"))
    /\ pc' = [pc EXCEPT !["w1"] = "loop"]
    /\ UNCHANGED <<interleaveVars, dbVars, txn, run, hist>>

NextInterleave ==
    \/ BatchMarkCasesQueued
    \/ \E c \in Cases :
          \/ TxnUpdateCase(c)
          \/ TxnSelectQueueStatus(c)
          \/ TxnSelectCounts(c)
          \/ TxnUpdateExperiment(c)
          \/ TxnCommit(c)
    \/ BatchRunnerReturn
    \/ BatchPersistNext
    \/ BatchEnds

SpecInterleave == InitInterleave /\ [][NextInterleave]_vars

\* ======================================================================
\* SpecScorerPool: the score_fn calls of one batch and InspectRunner's
\* scorer pool.  Each score_fn reports score_exec, submits its job to the
\* ThreadPoolExecutor and waits for it with the hard timeout; a job waits in
\* the executor's queue until one of max_workers threads is free.  scoring
\* holds the calls (fns), the jobs, the queue and the phases reported for
\* the case; now counts half seconds.
\* ======================================================================
ScoreFns == 1..MaxScorers

NewScorerPool(scorer_concurrent_cases, scorer_hard_timeout_seconds) ==
    [pc |-> "pool", run_case_id |-> 1,
     max_workers |-> Max(1, scorer_concurrent_cases),
     scorer_hard_timeout_seconds |-> scorer_hard_timeout_seconds,
     fns |-> [i \in ScoreFns |-> [pc |-> "score_fn", submitted_at |-> 0, score |-> <<>>]],
     jobs |-> [i \in ScoreFns |-> "none"],
     queue |-> <<>>,
     events |-> <<>>]

InitScorerPool ==
    /\ processing = {}
    /\ processed = {}
    /\ caseStatus = [c \in Cases |-> "running"]
    /\ exp = NewExperiment("consuming", Null)
    /\ NoScores
    /\ gateway = GatewayDown
    /\ caseRun = NoCaseRun
    /\ scoring \in {NewScorerPool(n, h) : n \in {0, 1, 2}, h \in {0, 1}}
    /\ otel = NoOtel
    /\ now = 0
    /\ txn = NoTxn
    /\ WorkersIdle

poolVars ==
    <<processing, processed, caseStatus, exp, run_case_scores, final_score, gateway,
      caseRun, otel, txn, now, workerVars>>

Running(jobs) == {i \in ScoreFns : jobs[i] = "running"}

PoolDeadline(i) ==
    scoring.fns[i].submitted_at
        + TicksPerSecond * Max(1, scoring.scorer_hard_timeout_seconds)

\* score_fn, lines 345-353: score_exec is reported and the job submitted.
PoolScoreFnSubmit(i) ==
    /\ scoring.pc = "pool"
    /\ scoring.fns[i].pc = "score_fn"
    /\ scoring' = [scoring EXCEPT
                      !.fns[i].pc = "waiting", !.fns[i].submitted_at = now,
                      !.jobs[i] = "queued", !.queue = Append(@, i),
                      !.events = Append(@, <<"score_exec", i>>)]
    /\ UNCHANGED poolVars

\* ThreadPoolExecutor (lines 46-49): a free thread takes the next work item;
\* an item whose future was cancelled is dropped.
PoolJobStart ==
    /\ scoring.pc = "pool"
    /\ scoring.queue # <<>>
    /\ Cardinality(Running(scoring.jobs)) < scoring.max_workers
    /\ LET i == Head(scoring.queue)
       IN  scoring' = [scoring EXCEPT
                          !.queue = Tail(@),
                          !.jobs[i] = IF @ = "cancelled" THEN @ ELSE "running"]
    /\ UNCHANGED poolVars

\* score_impl returns (_score_case never raises).
PoolJobEnd(i) ==
    /\ scoring.pc = "pool"
    /\ scoring.jobs[i] = "running"
    /\ scoring' = [scoring EXCEPT !.jobs[i] = "done"]
    /\ UNCHANGED poolVars

\* score_fn, lines 355-358 and 386-405: the job ended in time; score_done is
\* reported.
PoolScoreFnResult(i) ==
    /\ scoring.pc = "pool"
    /\ scoring.fns[i].pc = "waiting"
    /\ scoring.jobs[i] = "done"
    /\ scoring' = [scoring EXCEPT
                      !.fns[i].pc = "returned", !.fns[i].score = <<"score">>,
                      !.events = Append(@, <<"score_done", i>>)]
    /\ UNCHANGED poolVars

\* Future.cancel: a job still queued is cancelled; one that is running or
\* has ended is left as it is.
FutureCancel(job) == IF job = "queued" THEN "cancelled" ELSE job

\* score_fn, lines 359-385: the timeout fired; job.cancel(), the timings,
\* the warning, and the sentinel is returned.
PoolScoreFnTimeout(i) ==
    /\ scoring.pc = "pool"
    /\ scoring.fns[i].pc = "waiting"
    /\ scoring.jobs[i] # "done"
    /\ now >= PoolDeadline(i)
    /\ scoring' = [scoring EXCEPT
                      !.fns[i].pc = "returned", !.fns[i].score = <<"sentinel">>,
                      !.jobs[i] = FutureCancel(@)]
    /\ UNCHANGED poolVars

NextScorerPool ==
    \/ \E i \in ScoreFns :
          \/ PoolScoreFnSubmit(i)
          \/ PoolJobEnd(i)
          \/ PoolScoreFnResult(i)
          \/ PoolScoreFnTimeout(i)
    \/ PoolJobStart
    \/ Tick

SpecScorerPool == InitScorerPool /\ [][NextScorerPool]_vars

\* ======================================================================
\* Properties
\* ======================================================================
\* Where a delivery stands.
InProcess == {"preflight", "loop", "queued", "call", "running", "persist"}
Executing == {"queued", "call", "running", "persist"}
InFlight == InProcess \cup {"mark", "release", "failed"}
Exited == {"ack", "nack", "done", "crashed"}
Settled == {"done", "crashed"}

Acquired(w) ==
    \E i \in 1..Len(gateLog[w]) : gateLog[w][i] = <<"acquire_processing", TRUE>>

Kinds(log) == [i \in 1..Len(log) |-> log[i][1]]

CountKind(log, kind) == Cardinality({i \in 1..Len(log) : log[i][1] = kind})

SameMessage(w, v) == w # v /\ body[w] # NoPayload /\ body[w] = body[v]

\* ---------------------------------------------------------------------- C1
\* C1 as the specification states it: of two deliveries of the same message,
\* under any interleaving of their gate calls, no two are in flight together,
\* none is executing the case batch once the other one has executed it with
\* success, and the one that returns at already_processed or acquire_processing has
\* made no repository write and no runner call.
C1_AtMostOneExecutes ==
    \A w \in Workers, v \in Workers :
        SameMessage(w, v) =>
            /\ ~(pc[w] \in InFlight /\ pc[v] \in InFlight)
            /\ (hist[v].process = "ok" /\ ~hist[v].skipped) => pc[w] \notin Executing
            /\ (hist[w].handler = "returned" /\ ~Acquired(w)) =>
                   (~hist[w].read /\ ~hist[w].wrote /\ ~hist[w].launched)

\* ---------------------------------------------------------------------- C2
\* C2: a handler that acquired the in-flight marker holds it while it
\* processes and has, when it exits, made exactly these gate calls after the
\* acquire: mark_processed then release_processing when processing returned,
\* release_processing alone when processing raised, and then the handler
\* raises the exception that processing raised.
C2_GateProtocol ==
    \A w \in Workers :
        /\ pc[w] \in InFlight => (Acquired(w) /\ Key(w) \in processing)
        /\ (Acquired(w) /\ pc[w] \in Exited) =>
              /\ Len(gateLog[w]) >= 3
              /\ IF hist[w].process = "ok"
                 THEN /\ SubSeq(Kinds(gateLog[w]), 3, Len(gateLog[w]))
                            = <<"mark_processed", "release_processing">>
                      /\ Key(w) \in processed
                      /\ hist[w].handler = "returned"
                 ELSE /\ SubSeq(Kinds(gateLog[w]), 3, Len(gateLog[w]))
                            = <<"release_processing">>
                      /\ hist[w].process = "raised"
                      /\ hist[w].handler = "raised"
                      /\ raised[w] = hist[w].exc

\* Both outcomes in one state: the first delivery raised and released, the
\* second one processed the batch, marked it and released.
C2_Witness ==
    /\ Acquired("w1") /\ pc["w1"] \in Exited /\ hist["w1"].exc = "E_RUN_RETRIES_EXCEEDED"
    /\ Acquired("w2") /\ pc["w2"] \in Exited /\ hist["w2"].process = "ok"
    /\ hist["w2"].launched

\* ---------------------------------------------------------------------- C3
\* C3: nothing is sent to the broker while the handler runs; after the
\* handler returned the first thing attempted is one ack, and when that ack is
\* sent nothing follows it; after the handler raised no ack is attempted and
\* exactly one nack is; no nack ever asks for a requeue, and none is repeated.
C3_AckNack ==
    \A w \in Workers :
        /\ hist[w].handler = "none" => brokerLog[w] = <<>>
        /\ (hist[w].handler = "returned" /\ pc[w] \in Settled) =>
              /\ brokerLog[w][1][1] = "ack"
              /\ CountKind(brokerLog[w], "ack") = 1
              /\ brokerLog[w][1][2] = "sent" => Len(brokerLog[w]) = 1
        /\ hist[w].handler = "raised" =>
              /\ CountKind(brokerLog[w], "ack") = 0
              /\ pc[w] \in Settled => CountKind(brokerLog[w], "nack") = 1
        /\ CountKind(brokerLog[w], "nack") <= 1
        /\ \A i \in 1..Len(brokerLog[w]) :
              brokerLog[w][i][1] = "nack" => brokerLog[w][i][3] = FALSE

\* One delivery acked after its handler returned, the other nacked after its
\* handler raised.
C3_Witness ==
    \E w \in Workers, v \in Workers :
        /\ hist[w].handler = "returned" /\ brokerLog[w] = << <<"ack", "sent", FALSE>> >>
        /\ hist[v].handler = "raised" /\ brokerLog[v] = << <<"nack", "sent", FALSE>> >>


\* ---------------------------------------------------------------------- C4
\* The successor relation of the case status, as the specification gives it.
AllowedSuccessor(from, to) ==
    CASE to = "queued" -> from = "pending"
      [] to = "running" -> from \in {"pending", "queued", "trajectory"}
      [] to = "trajectory" -> from \in {"running", "scoring"}
      [] to = "scoring" -> from \in {"running", "trajectory"}
      [] to \in Terminal -> from \in NonTerminal
      [] OTHER -> FALSE

\* C4 as the specification states it: every step that changes a case row's
\* status takes it to an allowed successor of the status it had; any other
\* write changes nothing.
C4_OnlyAllowedSuccessors ==
    [][\A c \in Cases :
          caseStatus'[c] # caseStatus[c] => AllowedSuccessor(caseStatus[c], caseStatus'[c])]_vars

\* ---------------------------------------------------------------------- C7
\* C7: _process_message makes at most max_message_retries attempts, each one
\* starting afresh and handing the runner every case of the message; it goes
\* round the loop only after an attempt raised and is out of the loop as soon
\* as one returned; it raises E_RUN_RETRIES_EXCEEDED after the last attempt
\* failed and only then, and that delivery gets one nack without requeue and
\* no ack.
C7_RetryLoop ==
    \A w \in Workers :
        /\ attempt[w] <= max_message_retries
        /\ pc[w] = "queued" => (alog[w] = <<>> /\ run[w] = NewRun)
        /\ \A i \in 1..Len(alog[w]) :
              /\ alog[w][i][1] = "run_cases" => alog[w][i][2] = body[w].run_cases
              /\ alog[w][i][1] = "mark_cases_queued" => alog[w][i][2] = RunCaseIds(w)
        /\ pc[w] \in {"running", "persist"} => CountKind(alog[w], "run_cases") = 1
        /\ (pc[w] = "loop" /\ attempt[w] >= 1) => raised[w] \in {"RuntimeError", "E_DB"}
        /\ hist[w].process = "ok" => pc[w] \in {"mark", "release"} \cup Exited
        /\ (pc[w] = "failed" /\ hist[w].read) =>
              (raised[w] = "E_RUN_RETRIES_EXCEEDED" /\ attempt[w] = max_message_retries)
        /\ hist[w].exc = "E_RUN_RETRIES_EXCEEDED" =>
              /\ attempt[w] = max_message_retries
              /\ pc[w] \in Exited => raised[w] = "E_RUN_RETRIES_EXCEEDED"
              /\ pc[w] \in Settled =>
                    (Len(brokerLog[w]) = 1 /\ brokerLog[w][1][1] = "nack"
                       /\ brokerLog[w][1][3] = FALSE)

\* One delivery used up its attempts and was nacked; the redelivery succeeded
\* at its second attempt.
C7_Witness ==
    /\ hist["w1"].exc = "E_RUN_RETRIES_EXCEEDED" /\ pc["w1"] = "done"
    /\ brokerLog["w1"] = << <<"nack", "sent", FALSE>> >>
    /\ hist["w2"].process = "ok" /\ attempt["w2"] = 2 /\ hist["w2"].launched

\* ---------------------------------------------------------------------- C8
PersistsOf(log, c) ==
    {i \in 1..Len(log) : log[i][1] = "persist_case_result" /\ log[i][2] = c}

Persisted(log, c) ==
    {i \in PersistsOf(log, c) : log[i][4]}

\* The order of the calls within an attempt.
AttemptOrder(w) ==
    alog[w] # <<>> =>
        LET returned == {j \in 1..Len(alog[w]) : alog[w][j] = <<"runner_returned">>}
        IN  /\ alog[w][1] = <<"mark_cases_queued", RunCaseIds(w)>>
            /\ \A i \in 1..Len(alog[w]) :
                  /\ alog[w][i][1] = "persist_case_result" => \E j \in returned : j < i
                  /\ alog[w][i][1] = "mark_case_status" => \A j \in returned : j > i
                  /\ alog[w][i][1] = "raise" =>
                        /\ \A c \in RunCaseIds(w) :
                              \E j \in Persisted(alog[w], c) : j < i
                        /\ \E c \in RunCaseIds(w) : run[w].case_results[c] # "success"

\* The attempt of w is over: it raised into the retry loop, or it returned.
AttemptOver(w) == alog[w] # <<>> /\ pc[w] \in {"loop", "mark"}

InitExperiments ==
    {NewExperiment(qs, qm) : qs \in {"queued", "manual_terminated"},
                             qm \in {Null, "m1", "m9"}}

\* C9: a delivery whose pre-flight read found manual_terminated, or a
\* queue_message_id that is set and is not the message's, makes no attempt, no
\* case write and no runner call; the case rows and the experiment row are
\* still as they were; its handler returns, so that the first thing sent to
\* the broker is an ack, and nothing else when that ack went out.
C9_PreFlightSkip ==
    \A w \in Workers :
        hist[w].skipped =>
            /\ exp.queue_status = "manual_terminated" \/ Stale(exp, body[w])
            /\ ~hist[w].wrote /\ ~hist[w].launched /\ attempt[w] = 0
            /\ caseStatus = [c \in Cases |-> "pending"]
            /\ exp \in InitExperiments
            /\ hist[w].process = "ok"
            /\ pc[w] \in {"mark", "release"} \cup Exited
            /\ pc[w] \in Exited => hist[w].handler = "returned"
            /\ pc[w] \in Settled =>
                  /\ brokerLog[w][1][1] = "ack"
                  /\ brokerLog[w][1][2] = "sent" => Len(brokerLog[w]) = 1

\* A delivery skipped for a manual termination, and acked.
C9_Witness ==
    \E w \in Workers :
        /\ hist[w].skipped /\ exp.queue_status = "manual_terminated"
        /\ ~Stale(exp, body[w])
        /\ pc[w] = "done" /\ brokerLog[w] = << <<"ack", "sent", FALSE>> >>

\* A delivery skipped for another message's queue_message_id, and acked.
C9_WitnessStale ==
    \E w \in Workers :
        /\ hist[w].skipped /\ exp.queue_status # "manual_terminated"
        /\ Stale(exp, body[w])
        /\ pc[w] = "done" /\ brokerLog[w] = << <<"ack", "sent", FALSE>> >>

\* --------------------------------------------------------------------- C10
Rejected(p) ==
    /\ p.json_ok
    /\ \/ p.schema_version \notin {SUPPORTED_SCHEMA, "absent"}
       \/ p.message_type # RUN_REQUESTED

\* C10 as the specification states it: a decoded payload with another
\* schema_version or another message_type makes the handler raise
\* E_UNSUPPORTED_SCHEMA_VERSION or E_UNSUPPORTED_MESSAGE_TYPE with no gate
\* call, repository call or runner call made, and the delivery gets one nack
\* without requeue and no ack.
C10_TypedRejection ==
    \A w \in Workers :
        (body[w] # NoPayload /\ Rejected(body[w])) =>
            /\ raised[w] \in {"E_UNSUPPORTED_SCHEMA_VERSION", "E_UNSUPPORTED_MESSAGE_TYPE"}
            /\ hist[w].handler = "raised"
            /\ gateLog[w] = <<>>
            /\ ~hist[w].read /\ ~hist[w].wrote /\ ~hist[w].launched
            /\ pc[w] \in Settled =>
                  (Len(brokerLog[w]) = 1 /\ brokerLog[w][1][1] = "nack"
                     /\ brokerLog[w][1][3] = FALSE)

\* ---------------------------------------------------------------------- C5
\* C5 as the specification states it: a reconciler run that finds
\* queue_status = manual_terminated when it comes to write leaves it
\* manual_terminated, whatever it read before.
C5_ManualTerminatedStays ==
    txn.pc = "committed" =>
        (txn.found = "manual_terminated" => txn.left = "manual_terminated")

C11_FinalScoreIsMean ==
    txn.pc = "committed" =>
        final_score[txn.c] = Avg(run_case_scores[txn.c])

\* --------------------------------------------------------------------- C12
\* C12: when a statement of persist_case_result has failed, whichever it was,
\* the case rows, the scorer rows, the final scores and the experiment row
\* are what they were before the call, and the error is raised to the caller.
C12_PersistAtomic ==
    txn.pc = "rolled_back" =>
        /\ Database = txn.before
        /\ txn.raised = "E_DB"

\* A persist that failed at its commit, after it had written the case row,
\* the scorer rows, the final score and the experiment row.
C12_Witness ==
    /\ txn.pc = "rolled_back" /\ txn.failed_at = "commit"
    /\ txn.dirty.caseStatus # txn.before.caseStatus
    /\ txn.dirty.run_case_scores # txn.before.run_case_scores
    /\ txn.dirty.final_score # txn.before.final_score
    /\ txn.dirty.exp # txn.before.exp


\* --------------------------------------------------------------------- C13
\* C13: as long as every score_done of a case has come after its own
\* score_exec, the callback's counter is the number of active scorers, and a
\* scorer event writes scoring exactly when that number goes from 0 to 1,
\* trajectory exactly when it goes from 1 to 0, and nothing otherwise.
C13_ScorerRefcount ==
    \A c \in Cases :
        txn.matched[c] =>
            /\ run["w1"].scoring_active[c] = Cardinality(txn.active[c])
            /\ (txn.last.c = c /\ txn.last.phase \in {"score_exec", "score_done"}) =>
                  txn.last.write =
                      IF txn.last.before = 0 /\ txn.last.after = 1 THEN "scoring"
                      ELSE IF txn.last.before = 1 /\ txn.last.after = 0 THEN "trajectory"
                      ELSE Null

\* Two scorers of a case overlap and the first of them to finish takes the
\* count from 2 to 1: nothing is written and the case stays in scoring.
C13_Witness ==
    \E c \in Cases :
        /\ txn.matched[c] /\ txn.last.c = c /\ txn.last.phase = "score_done"
        /\ txn.last.before = 2 /\ txn.last.after = 1
        /\ txn.last.write = Null /\ txn.last_write[c] = "scoring"
        /\ caseStatus[c] = "scoring"

\* --------------------------------------------------------------------- C14
\* C14 as the specification states it: whatever events the callback gets for
\* a case, a status it writes for the case is never the status it wrote for
\* that case the time before.
C14_NoRepeatedWrite ==
    txn.last.write # Null => txn.last.write # txn.last.prev_write

\* --------------------------------------------------------------------- C15
LatestCases == {c \in Cases : caseStatus[c] # NotLatest}

\* C15: when the reconciler has run on an experiment that is neither
\* manual_terminated nor test_case, queue_status is idle if the experiment
\* has no latest case, consuming if some latest case is not terminal, else
\* done if none is failed or timeout, else failed if none is success, else
\* done.
C15_Derivation ==
    (txn.pc = "reconciled" /\ txn.before.queue_status \notin {"manual_terminated", "test_case"}) =>
        exp.queue_status =
            IF LatestCases = {} THEN "idle"
            ELSE IF \E c \in LatestCases : caseStatus[c] \in NonTerminal THEN "consuming"
            ELSE IF \A c \in LatestCases : caseStatus[c] \notin {"failed", "timeout"} THEN "done"
            ELSE IF \A c \in LatestCases : caseStatus[c] # "success" THEN "failed"
            ELSE "done"

\* The reconciler has run on a mix of success and failed cases: done.
C15_Witness ==
    /\ txn.pc = "reconciled" /\ txn.before.queue_status \notin {"manual_terminated", "test_case"}
    /\ \E c \in LatestCases : caseStatus[c] = "success"
    /\ \E c \in LatestCases : caseStatus[c] \in {"failed", "timeout"}
    /\ \A c \in LatestCases : caseStatus[c] \in Terminal
    /\ exp.queue_status = "done"

\* It has run on an experiment with no latest case: idle.
C15_WitnessIdle ==
    /\ txn.pc = "reconciled" /\ LatestCases = {} /\ exp.queue_status = "idle"

\* --------------------------------------------------------------------- C16
\* C16 as the specification states it: when the reconciler runs again and no
\* case has changed since it last ran, it leaves queue_status, started_at and
\* finished_at of the experiment as they were.
C16_Idempotent ==
    (txn.pc = "reconciled" /\ txn.again /\ ~txn.changed) => exp = txn.before

\* --------------------------------------------------------------------- C17
OpenHandles == {h \in DOMAIN gateway.handles : gateway.handles[h] = "open"}

C17_WitnessCloseAgain ==
    /\ gateway.last.op = "close_again"
    /\ gateway.shared.shared_ref_count = 1

\* --------------------------------------------------------------------- C18
\* C18 as the specification states it: when the runner has returned or
\* raised, no container that the run created is left and no sidecar handle
\* that it obtained is open.
C18_AllReleased ==
    caseRun.pc = "done" => (caseRun.containers = {} /\ caseRun.sidecar # "open")

\* --------------------------------------------------------------------- C19
\* C19 as the specification states it: the runner always returns, never
\* raises, and after a failure what it returns has status failed and an error
\* message.
C19_FailureIsResult ==
    caseRun.pc = "done" =>
        /\ caseRun.out = "returned"
        /\ caseRun.exc # "none" =>
              (caseRun.result.status = "failed" /\ caseRun.result.error_message # "")

C20_WitnessSuccess ==
    /\ caseRun.pc = "done" /\ caseRun.out = "returned"
    /\ caseRun.result = [status |-> "success", exit_code |-> 0, error_message |-> ""]

\* ---------------------------------------------------------------------
\* C21 (SpecStartupRetry). The agent-not-ready signal is exit code 7 or one
\* of the four connection messages in the output, in any letter case. The
\* call returns only after at least one exec, and the exec it returns is the
\* first that exited 0, or failed without the signal, or was seen at or after
\* the deadline; every exec before it failed with the signal before the
\* deadline, and the loop sleeps and runs the command again only after such
\* an exec. The case then has the status and exit code of the returned exec.
NotReadyLogs ==
    {"curl: (7) Failed to connect", "Couldn't connect to server", "CONNECTION REFUSED",
     "Connection refused"}

Retried(e) ==
    /\ e.returncode # 0
    /\ e.returncode = 7 \/ e.raw_logs \in NotReadyLogs
    /\ e.at < caseRun.deadline

C21_StartupRetry ==
    caseRun.pc \in {"exec", "check", "sleep", "returned", "case_done", "raised"} =>
        LET execs == caseRun.execs
            n == Len(execs)
        IN /\ \A i \in 1..n :
                  IsAgentNotReadyError(execs[i].returncode, execs[i].raw_logs)
                      <=> (execs[i].returncode = 7 \/ execs[i].raw_logs \in NotReadyLogs)
           /\ caseRun.pc \in {"exec", "sleep"} => \A i \in 1..n : Retried(execs[i])
           /\ caseRun.pc \in {"check", "returned", "case_done"} =>
                  /\ n >= 1
                  /\ \A i \in 1..(n - 1) : Retried(execs[i])
           /\ caseRun.pc \in {"returned", "case_done"} => ~Retried(execs[n])
           /\ caseRun.pc = "sleep" => n >= 1
           /\ caseRun.pc = "case_done" =>
                  /\ caseRun.result.exit_code = execs[n].returncode
                  /\ caseRun.result.status = "success" <=> execs[n].returncode = 0

\* A first exec with exit 7, a second with exit 0 inside the deadline, and
\* the case is a success with exit code 0.
C21_Witness ==
    /\ caseRun.pc = "case_done"
    /\ Len(caseRun.execs) = 2
    /\ caseRun.execs[1].returncode = 7
    /\ caseRun.execs[2].returncode = 0
    /\ caseRun.execs[2].at < caseRun.deadline
    /\ caseRun.result.status = "success"
    /\ caseRun.result.exit_code = 0

\* The deadline has passed and the call returns an exec that still carried
\* the signal.
C21_WitnessDeadline ==
    /\ caseRun.pc = "returned"
    /\ Len(caseRun.execs) >= 2
    /\ LET e == caseRun.execs[Len(caseRun.execs)]
       IN /\ e.returncode # 0
          /\ IsAgentNotReadyError(e.returncode, e.raw_logs)
          /\ e.at >= caseRun.deadline

\* ---------------------------------------------------------------------
\* C22 (SpecScorer). _score_case never ends by raising. For a case whose
\* status is not success it returns -1.0 with E_SCORE_DEFAULT_RUN_CASE_FAILED
\* and no backend call was made; with an incomplete scorer configuration, or
\* when call_evaluator raised, it returns -1.0 with a reason that starts with
\* E_SCORE_DEFAULT_.
HasDefaultReason(reason) == Len(reason) >= 16 /\ SubSeq(reason, 1, 16) = "E_SCORE_DEFAULT_"

C22_ScorerNeverRaises ==
    LET job == scoring.job
    IN /\ job.pc # "raised"
       /\ scoring.pc # "score_fn_raised"
       /\ job.pc = "done" =>
              /\ scoring.status # "success" =>
                     /\ job.value = -100
                     /\ job.reason = "E_SCORE_DEFAULT_RUN_CASE_FAILED"
                     /\ job.backend_calls = 0
              /\ scoring.status = "success" /\ ~ConfigComplete(scoring.scorer_config) =>
                     /\ job.value = -100
                     /\ HasDefaultReason(job.reason)
                     /\ job.backend_calls = 0
              /\ job.exc # NoException =>
                     /\ job.value = -100
                     /\ HasDefaultReason(job.reason)

\* The backend failed on every attempt and the scorer returned the sentinel.
C22_Witness ==
    /\ scoring.job.pc = "done"
    /\ scoring.job.backend_calls = 2
    /\ scoring.job.exc = [type |-> "HTTPError", status |-> 503]
    /\ scoring.job.value = -100
    /\ scoring.job.reason = "E_SCORE_DEFAULT_EVALUATOR_CALL_FAILED: HTTPError"

\* The case failed and the scorer returned the sentinel without a call.
C22_WitnessFailedCase ==
    /\ scoring.job.pc = "done"
    /\ scoring.status = "failed"
    /\ ConfigComplete(scoring.scorer_config)
    /\ scoring.job.reason = "E_SCORE_DEFAULT_RUN_CASE_FAILED"

\* ---------------------------------------------------------------------
\* C23 (SpecScorer). A scorer whose backend call was still running when
\* the hard timeout fired yields -1.0 with E_SCORE_DEFAULT_SCORER_TIMEOUT,
\* and the case is then persisted with the status of its exec, that one
\* scorer row and final_score -1.0; the timeout fires once the call has run
\* longer than max(1, scorer_hard_timeout_seconds) seconds.
TimedOutCasePersists ==
    /\ scoring.timed_out /\ scoring.pc \in {"scored", "returned", "persisted"} =>
           scoring.score = <<[score |-> -100, reason |-> "E_SCORE_DEFAULT_SCORER_TIMEOUT"]>>
    /\ scoring.timed_out /\ scoring.pc = "persisted" =>
           /\ caseStatus[scoring.run_case_id] = scoring.status
           /\ run_case_scores[scoring.run_case_id] = <<-100>>
           /\ final_score[scoring.run_case_id] = <<-100, 1>>

\* score_fn returned what the backend call gave.
BackendResultUsed ==
    /\ scoring.pc \in {"scored", "returned", "persisted"}
    /\ ~scoring.timed_out
    /\ scoring.job.backend_calls > 0

BackendCallTime == scoring.job.done_at - scoring.job.call_started_at

\* As stated: the timeout fires once the call has run longer than
\* scorer_hard_timeout_seconds.
C23_HardTimeout ==
    /\ TimedOutCasePersists
    /\ BackendResultUsed =>
           BackendCallTime <= TicksPerSecond * scoring.scorer_hard_timeout_seconds

C23_HardTimeoutAtLeastOneSecond ==
    /\ TimedOutCasePersists
    /\ BackendResultUsed =>
           BackendCallTime <= TicksPerSecond * Max(1, scoring.scorer_hard_timeout_seconds)

\* The exec succeeded, the backend had not answered when the timeout fired,
\* and the case is persisted as a success with final_score -1.0.
C23_Witness ==
    /\ scoring.pc = "persisted"
    /\ scoring.timed_out
    /\ scoring.status = "success"
    /\ scoring.scorer_hard_timeout_seconds = 1
    /\ scoring.job.pc = "call"
    /\ now - scoring.job.call_started_at > TicksPerSecond * scoring.scorer_hard_timeout_seconds
    /\ caseStatus[scoring.run_case_id] = "success"
    /\ final_score[scoring.run_case_id] = <<-100, 1>>

\* ---------------------------------------------------------------------
\* C28 (SpecScorer). Whatever content the evaluator returned,
\* _extract_score returned a score among -1.0, 0.0, 0.5 and 1.0: a score of
\* 0, 0.5 or 1 unchanged; another score that float() accepts as 1.0 from 0.9
\* up, 0.5 from 0.6 up and 0.0 below; -1.0 for empty content, for content
\* that is not JSON and for a score that is missing or that float() rejects.
SentinelContents ==
    {<<>>, <<"">>, <<" \n">>, <<"score: 1">>, <<"{\"score\": \"high\"}">>,
     <<"{\"score\": null}">>, <<"{\"score\": [1]}">>, <<"{\"reason\": \"ok\"}">>,
     <<"[]">>, <<"0.5">>, <<"null">>}

ExpectedScore(raw_content) ==
    CASE raw_content \in SentinelContents -> -100
      [] raw_content \in {<<"{\"score\": 1, \"reason\": \"ok\"}">>, <<"{\"score\": 0.95}">>,
                          <<"{\"score\": 0.9}">>, <<"{\"score\": 7}">>,
                          <<"{\"score\": true}">>} -> 100
      [] raw_content \in {<<"{\"score\": 0.5}">>, <<"{\"score\": 0.6}">>,
                          <<"{\"score\": \"0.7\"}">>} -> 50
      [] OTHER -> 0

C28_ExtractScore ==
    \A i \in 1..Len(scoring.job.extract) :
        LET e == scoring.job.extract[i]
        IN /\ e.out.exc = "none"
           /\ e.out.score = ExpectedScore(e.raw_content)

\* C24: for every OTLP request the collector accepts, the number of records
\* appended to the in-memory index equals the number persisted to storage
\* within the same call, including when the storage sink fails.
C24_IndexEqualsPersisted ==
    (otel.pc \in {"consumer_start", "consuming"} /\ otel.last.status = 200)
        => otel.last.appended = otel.last.persisted

\* C29: when the listen port is already in use, OTelCollectorServer.start
\* returns False without raising and leaves no server thread running, and
\* ConsumerWorker.start still goes on to consume messages.
C29_PortInUse ==
    (otel.pc \in {"consumer_start", "consuming", "raised"} /\ otel.bind = "EADDRINUSE")
        => /\ otel.started = <<FALSE>>
           /\ otel.exc = "none"
           /\ ~otel.thread
           /\ ~otel.httpd
           /\ otel.pc \in {"consumer_start", "consuming"}
           /\ ENABLED WorkerStartConsumer \/ otel.pc = "consuming"

C29_Witness ==
    /\ otel.pc = "consuming"
    /\ otel.bind = "EADDRINUSE"
    /\ otel.started = <<FALSE>>
    /\ ~otel.thread

SourceOrder == <<"index", "logs", "spans">>

FixedOrder(consulted) ==
    /\ Len(consulted) <= Len(SourceOrder)
    /\ \A i \in 1..Len(consulted) :
          /\ consulted[i].source = SourceOrder[i]
          /\ i < Len(consulted) => ~consulted[i].nonempty

\* C25: trajectory resolution for a case consults its sources in a fixed
\* order: the collector's in-memory span index first, the repository log
\* table only when the index returned nothing, the repository span table
\* only when the logs returned nothing; a later source is never consulted
\* after an earlier one returned a non-empty result.
C25_SourceOrder ==
    /\ FixedOrder(otel.consulted)
    /\ FixedOrder(otel.source_consulted)

\* C26: for a case whose result trajectory is empty after the runner
\* returns, the trace fallback runs before the case is persisted; the
\* persisted trajectory is the fallback's result when that is non-empty and
\* the original otherwise; a non-empty trajectory is never replaced; and a
\* trace or log query that raises is swallowed: it neither fails the case
\* nor aborts the attempt.
C26_TraceFallback ==
    LET orig == otel.runner_result.trajectory
        status == otel.runner_result.status
    IN  /\ otel.pc = "persist" /\ IsEmptyTrajectory(orig) => otel.consulted # <<>>
        /\ otel.persisted # <<>> =>
              /\ otel.persisted[1].status = status
              /\ IF IsEmptyTrajectory(orig)
                 THEN /\ otel.consulted # <<>>
                      /\ otel.persisted[1].trajectory =
                            IF otel.patched # <<>>
                            THEN PyTrajectory("list", otel.patched, "")
                            ELSE orig
                 ELSE /\ otel.consulted = <<>>
                      /\ otel.persisted[1].trajectory = orig
        /\ otel.pc = "raised" =>
              otel.exc = "RuntimeError" /\ otel.persisted # <<>> /\ status # "success"
        /\ otel.pc = "done" => otel.persisted # <<>> /\ status = "success"

C26_Witness ==
    /\ otel.pc = "done"
    /\ otel.query_raised
    /\ Len(otel.consulted) = 2
    /\ otel.persisted[1].trajectory = PyTrajectory("none", <<>>, "")
    /\ otel.persisted[1].status = "success"

C26_WitnessReplaced ==
    /\ otel.pc = "done"
    /\ otel.runner_result.trajectory = PyTrajectory("str", <<>>, " \n")
    /\ otel.persisted[1].trajectory.kind = "list"
    /\ Len(otel.persisted[1].trajectory.steps) = 2

MappedFromSpans ==
    /\ otel.consulted # <<>>
    /\ otel.consulted[Len(otel.consulted)] = Consulted("spans", otel.map_input)

\* C27: map_spans_to_trajectory returns exactly one step per input span,
\* none dropped and none duplicated, ordered ascending by (start_ms, end_ms,
\* span_id), numbered step = 1..n without gaps, each with
\* latency_ms = max(0, end - start).
C27_MapSpans ==
    MappedFromSpans =>
        LET spans == otel.map_input
            steps == otel.patched
        IN  /\ Len(steps) = Len(spans)
            /\ \E p \in Permutations(1..Len(spans)) :
                  /\ \A i \in 1..Len(steps) :
                        /\ steps[i].span_id = spans[p[i]].span_id
                        /\ steps[i].start_time_ms = SpanSortKey(spans[p[i]])[1][1]
                        /\ steps[i].end_time_ms \in
                              {SpanSortKey(spans[p[i]])[2][1], steps[i].start_time_ms}
                  /\ \A i, j \in 1..Len(steps) :
                        i < j => KeyLeq(SpanSortKey(spans[p[i]]), SpanSortKey(spans[p[j]]))
            /\ \A i \in 1..Len(steps) :
                  /\ steps[i].step = i
                  /\ steps[i].latency_ms =
                        Max(0, steps[i].end_time_ms - steps[i].start_time_ms)

C27_Witness ==
    /\ MappedFromSpans
    /\ Len(otel.patched) = 2
    /\ otel.patched[1].span_id # otel.map_input[1].span_id
    /\ otel.patched[2].end_time_ms < otel.patched[2].start_time_ms
    /\ otel.patched[2].latency_ms = 0
    /\ otel.patched[2].step = 2

\* A step of SpecReconcile that is a repository write with its reconciler run.
ReconcilerRan == now' = now /\ txn'.pc = "reconciled"

\* C30 as the specification states it: when the reconciler finds
\* queue_status = test_case it returns early, as it does for
\* manual_terminated: no column of the experiment row (queue_status,
\* started_at, finished_at) is written by that reconciliation.
C30_TestCaseEarlyReturn ==
    [][(ReconcilerRan /\ exp.queue_status \in {"manual_terminated", "test_case"})
          => exp' = exp]_vars

\* C30, amended: for manual_terminated the reconciler returns early and
\* writes no column; for test_case it does not: queue_status stays test_case,
\* started_at is set when the derived status is consuming and started_at is
\* null, and finished_at is set when the derived status is done or failed.
C30_TestCaseKeepsQueueStatusOnly ==
    [][ReconcilerRan =>
          /\ exp.queue_status = "manual_terminated" => exp' = exp
          /\ exp.queue_status = "test_case" =>
                LET run_status == RunStatus(caseStatus')
                IN  /\ exp'.queue_status = "test_case"
                    /\ exp'.queue_message_id = exp.queue_message_id
                    /\ exp'.started_at =
                          IF run_status = "consuming" /\ exp.started_at = 0
                          THEN now ELSE exp.started_at
                    /\ exp'.finished_at =
                          IF run_status \in {"done", "failed"}
                          THEN now ELSE exp.finished_at]_vars

C30_Witness ==
    /\ txn.pc = "reconciled"
    /\ txn.before.queue_status = "test_case"
    /\ exp.queue_status = "test_case"
    /\ exp.finished_at # txn.before.finished_at

\* --------------------------------------------------------------------- C35
\* What the stated rule gives: nanoseconds above 1e12, seconds above 1e9,
\* milliseconds otherwise.
EpochByMagnitude(value) ==
    IF GreaterThanPow10(value, NanosLimitExp)
    THEN IntOf(Scaled(value, -NanosToMillisExp))
    ELSE IF GreaterThanPow10(value, SecondsLimitExp)
    THEN IntOf(Scaled(value, SecondsToMillisExp))
    ELSE IntOf(value)

\* C35: numeric timestamps are converted to epoch milliseconds by magnitude:
\* a value above 1e12 is read as nanoseconds, a value above 1e9 and at most
\* 1e12 is read as seconds, and any smaller value is taken as milliseconds
\* unchanged.
C35_EpochByMagnitude ==
    otel.pc = "returned" => otel.result = <<EpochByMagnitude(otel.value)>>

\* --------------------------------------------------------------------- C34
\* C34: every repository case write changes only case rows whose
\* experiment_id and id both match the experiment_id and run_case_id given
\* to the call; a run case that belongs to another experiment is never
\* modified, and no scorer row of such a case is deleted or inserted.
C34_KeyedByExperimentAndCase ==
    txn.pc = "committed" =>
        \A c \in Cases :
            (c \notin txn.ids \/ txn.owner[c] # txn.experiment_id) =>
                /\ caseStatus[c] = txn.before.caseStatus[c]
                /\ run_case_scores[c] = txn.before.run_case_scores[c]
                /\ final_score[c] = txn.before.final_score[c]

\* --------------------------------------------------------------------- C33
\* C33: RabbitMqConsumer.start keeps running: after any connection loss and
\* after any failed ack or nack it reconnects and resumes consuming, and no
\* exception raised while handling a delivery makes start() exit.
C33_StartKeepsRunning ==
    consumer.pc = "exited" => consumer.origin \notin {"on_message", "start_consuming"}

\* --------------------------------------------------------------------- C36
\* The delivery found the in-flight marker held: its acquire_processing
\* returned False.
LockHeld(w) ==
    \E i \in 1..Len(gateLog[w]) :
        gateLog[w][i][1] = "acquire_processing" /\ ~gateLog[w][i][2]

\* C36: a delivery that finds the in-flight marker held by another invocation
\* returns normally without reading, writing or launching anything; what the
\* consumer then sends for it is an ack, never a requeue; and when the holder
\* fails and both deliveries have been settled with the broker, the message
\* has left the queue with no successful execution by either and with no
\* processed marker.
C36_LockHeldIsAcked ==
    \A w \in Workers :
        LockHeld(w) =>
            /\ hist[w].handler = "returned"
            /\ hist[w].process = "none"
            /\ ~hist[w].read /\ ~hist[w].wrote /\ ~hist[w].launched
            /\ pc[w] \in Exited
            /\ brokerLog[w] # <<>> => brokerLog[w][1][1] = "ack"
            /\ \A i \in 1..Len(brokerLog[w]) : ~brokerLog[w][i][3]
            /\ \A v \in Workers \ {w} :
                  (SameMessage(w, v) /\ hist[v].handler = "raised"
                   /\ pc[v] \in Settled /\ pc[w] \in Settled) =>
                      /\ Key(w) \notin processed
                      /\ hist[v].process # "ok"
                      /\ \A i \in 1..Len(brokerLog[v]) : ~brokerLog[v][i][3]

\* The second delivery was dropped at the marker and acked, the first one,
\* which held the marker, exhausted its retries and was nacked.
C36_Witness ==
    \E w \in Workers, v \in Workers :
        /\ LockHeld(w) /\ brokerLog[w] = << <<"ack", "sent", FALSE>> >>
        /\ Acquired(v) /\ hist[v].exc = "E_RUN_RETRIES_EXCEEDED"
        /\ pc[v] = "done" /\ brokerLog[v] = << <<"nack", "sent", FALSE>> >>
        /\ Key(w) \notin processed

\* --------------------------------------------------------------------- C37
\* The steps C37 is about: a handler whose pre-flight skipped the message
\* leaves its mark step with the processed marker set, and a delivery that
\* makes its already_processed call while the marker of its message is set
\* returns there, with no gate call after it and no read of the experiment.
SkippedIsMarked ==
    \A w \in Workers :
        /\ (pc[w] = "mark" /\ hist[w].skipped /\ pc'[w] # "mark") => Key(w) \in processed'
        /\ (pc[w] = "already" /\ pc'[w] # "already" /\ Key(w) \in processed) =>
              /\ pc'[w] = "ack"
              /\ hist'[w].handler = "returned"
              /\ ~hist'[w].read
              /\ Kinds(gateLog'[w]) = <<"already_processed">>
              /\ exp' = exp

\* C37: a message skipped at pre-flight (experiment manual_terminated, or a
\* stale queue_message_id) still gets its processed marker set, the marker
\* stays, and every later delivery with the same message id returns at
\* already_processed without reading the experiment state again.
C37_SkippedIsMarked ==
    [][SkippedIsMarked /\ processed \subseteq processed']_vars

\* The first delivery was skipped at pre-flight and marked; the second one
\* made one gate call, found the marker and was acked.
C37_Witness ==
    \E w \in Workers, v \in Workers :
        /\ hist[w].skipped /\ hist[w].read /\ pc[w] \in Settled
        /\ SameMessage(w, v) /\ Key(w) \in processed
        /\ gateLog[v] = << <<"already_processed", TRUE>> >>
        /\ ~hist[v].read /\ brokerLog[v] = << <<"ack", "sent", FALSE>> >>

\* --------------------------------------------------------------------- C38
\* The delivery is in a retry attempt of _execute_cases.
InRetryAttempt(w) ==
    attempt[w] >= 2 /\ pc[w] \in {"queued", "call", "running", "persist"}

\* The step is the attempt's own persist_case_result for case c.
OwnPersist(w, c) ==
    /\ pc[w] = "persist"
    /\ run[w].persist_idx <= Len(RunCases(w))
    /\ RunCases(w)[run[w].persist_idx] = c
    /\ run'[w].persist_idx = run[w].persist_idx + 1

\* The step is a mark_case_status call of the attempt for case c.
PhaseWrite(w, c) ==
    /\ Len(alog'[w]) = Len(alog[w]) + 1
    /\ alog'[w][Len(alog'[w])][1] = "mark_case_status"
    /\ alog'[w][Len(alog'[w])][2] = c

RetryKeepsPersisted ==
    \A w \in Workers :
        InRetryAttempt(w) =>
            /\ \A c \in RunCaseIds(w) :
                  caseStatus[c] \in ResultStatuses =>
                      /\ caseStatus'[c] # caseStatus[c] => OwnPersist(w, c)
                      /\ PhaseWrite(w, c) =>
                            /\ caseStatus'[c] = caseStatus[c]
                            /\ run'[w].status_cache[c] = alog'[w][Len(alog'[w])][3]
                            /\ run'[w].status_cache[c] # caseStatus'[c]
            /\ exp.queue_status \in {"done", "failed"} => exp'.queue_status # "consuming"

\* C38: during a retry attempt a case that an earlier attempt persisted as
\* success or failed keeps that status through the attempt's queued, running,
\* trajectory and scoring writes, which match no row, until the attempt's own
\* persist_case_result overwrites it; the status cache records each rejected
\* status; and the experiment's queue_status does not go back to consuming.
C38_RetryKeepsPersisted == [][RetryKeepsPersisted]_vars

\* A retry attempt has taken a persisted case through all its phases: the
\* row is still as persisted, the cache says trajectory, the experiment is
\* still done or failed.
C38_Witness ==
    \E w \in Workers, c \in Cases :
        /\ attempt[w] >= 2 /\ pc[w] = "running" /\ c \in RunCaseIds(w)
        /\ caseStatus[c] \in ResultStatuses
        /\ run[w].status_cache[c] = "trajectory"
        /\ Len(alog[w]) >= 5
        /\ exp.queue_status \in {"done", "failed"}

\* --------------------------------------------------------------------- C31
\* C31: after every committed repository case write of one message's
\* processing, in any interleaving of the transactions of concurrently
\* running cases, an experiment that is neither manual_terminated nor
\* test_case has the queue_status derived from the counts of its latest case
\* rows; in the first attempt of a message that covers every latest case
\* queue_status is queued before the first write, consuming while the cases
\* run and, after the last persist, done or failed.
C31_QueueStatusDerived ==
    /\ (hist["w1"].wrote /\ exp.queue_status \notin {"manual_terminated", "test_case"}) =>
          exp.queue_status = RunStatus(caseStatus)
    /\ attempt["w1"] = 1 =>
          /\ pc["w1"] = "queued" => exp.queue_status = "queued"
          /\ pc["w1"] = "running" => exp.queue_status = "consuming"
          /\ pc["w1"] = "loop" => exp.queue_status \in {"done", "failed"}

\* Two transactions are open at once, each past its count, and the attempt
\* is a first one; and the attempt has ended.
C31_Witness ==
    /\ attempt["w1"] = 1
    /\ \A c \in Cases : txn[c].pc \in {"update", "commit"} /\ txn[c].idx = Len(PhaseWrites)

C31_WitnessEnd ==
    /\ attempt["w1"] = 1 /\ pc["w1"] = "loop" /\ exp.queue_status = "failed"

\* --------------------------------------------------------------------- C39
\* C39: a new shared gateway server is started on the gateway port only
\* after the server shared before has shut down: no start_mock_gateway finds
\* the port still bound, whatever the interleaving with the close of the
\* last handle.
C39_StartAfterShutdown ==
    gateway.last.op = "start" => gateway.last.raised # "OSError"

\* --------------------------------------------------------------------- C32
\* C32: when a scorer exceeds the hard timeout its job is cancelled: once
\* the sentinel is returned the job no longer occupies a thread of the
\* scorer pool; no more than max_workers jobs run at a time; and a job waits
\* in the queue only behind jobs whose score_fn is still waiting.
C32_TimedOutJobLeavesPool ==
    /\ \A i \in ScoreFns :
          scoring.fns[i].score = <<"sentinel">> => scoring.jobs[i] # "running"
    /\ Cardinality(Running(scoring.jobs)) <= scoring.max_workers
    /\ (scoring.queue # <<>> /\ scoring.jobs[Head(scoring.queue)] = "queued"
        /\ Cardinality(Running(scoring.jobs)) = scoring.max_workers) =>
          \A i \in Running(scoring.jobs) : scoring.fns[i].pc = "waiting"

\* --------------------------------------------------------------------- C40
\* The count progress_callback keeps for case c after the phases reported.
RECURSIVE ScoringActiveAfter(_, _)
ScoringActiveAfter(events, c) ==
    IF events = <<>> THEN [k \in Cases |-> 0]
    ELSE ProgressCallback([k \in Cases |-> Null],
                          ScoringActiveAfter(SubSeq(events, 1, Len(events) - 1), c),
                          c, events[Len(events)][1]).scoring_active

Reported(events, phase, i) ==
    Cardinality({k \in 1..Len(events) : events[k] = <<phase, i>>})

\* C40: every score_exec reported for a case is followed by exactly one
\* score_done of the same scorer on every path of score_fn, the hard timeout
\* included, so that the count of active scorers of the case is zero once
\* all its scorers have ended.
C40_ScoreDoneFollows ==
    /\ \A i \in ScoreFns :
          scoring.fns[i].pc = "returned" =>
              /\ Reported(scoring.events, "score_exec", i) = 1
              /\ Reported(scoring.events, "score_done", i) = 1
    /\ (\A i \in ScoreFns : scoring.fns[i].pc = "returned") =>
          ScoringActiveAfter(scoring.events, scoring.run_case_id)[scoring.run_case_id] = 0

====
